---------------------------- MODULE Spec2Model ----------------------------
(***************************************************************************)
(* A model of the spreadsheet engine: the formula parser/evaluator         *)
(* (FormulaParser.ts), the dependency graph (DependencyGraph.ts) and the   *)
(* engine that composes them (SpreadsheetEngine.ts).                       *)
(*                                                                         *)
(* Representation.                                                         *)
(*  - A cell identifier such as "B3" is the pair <<2, 3>> (column index    *)
(*    counted from A = 1, row number).  <<0, 0>> stands for a string that   *)
(*    is no identifier at all (the empty string).                          *)
(*  - Formula text is a sequence of lexemes (Op, Num, Ref, Fn, Txt), in    *)
(*    the order they are written, without white space.  The regular        *)
(*    expressions of the source are applied lexeme-wise.                   *)
(*  - A JavaScript number is an exact rational n/d in lowest terms, or one *)
(*    of the non-finite values; a string is a text record; undefined is    *)
(*    its own value.                                                       *)
(***************************************************************************)
EXTENDS Integers, Sequences, FiniteSets, TLC

----------------------------------------------------------------------------
(* Generic helpers for JavaScript Set/Array semantics *)

Range(seq) == {seq[i] : i \in DOMAIN seq}

\* Set.prototype.add on an insertion-ordered Set
SetAdd(seq, x) == IF x \in Range(seq) THEN seq ELSE Append(seq, x)

\* Set.prototype.delete on an insertion-ordered Set
SetDelete(seq, x) == SelectSeq(seq, LAMBDA y : y # x)

RECURSIVE SetAddAll(_, _)
SetAddAll(seq, xs) ==
  IF xs = <<>> THEN seq ELSE SetAddAll(SetAdd(seq, Head(xs)), Tail(xs))

\* const v = ...; Body(v): the value is computed once and named
With(v, Body(_)) == Body(v)

Min2(a, b) == IF a <= b THEN a ELSE b
Max2(a, b) == IF a >= b THEN a ELSE b
Abs(a) == IF a < 0 THEN -a ELSE a

RECURSIVE Gcd(_, _)
Gcd(a, b) == IF b = 0 THEN a ELSE Gcd(b, a % b)

----------------------------------------------------------------------------
(* The address space *)

GRID_COLS == 10
GRID_ROWS == 5

----------------------------------------------------------------------------
(* Lexemes of formula text *)

Lex(k, s, n, d, c, r) == [k |-> k, s |-> s, n |-> n, d |-> d, c |-> c, r |-> r]
Op(s)     == Lex("op", s, 0, 1, 0, 0)      \* one of = + - * / ( ) : ,
Num(n)    == Lex("num", "", n, 1, 0, 0)    \* an unsigned decimal literal
Dec(n, d) == Lex("num", "", n, d, 0, 0)    \* an unsigned literal n/d
Ref(c, r) == Lex("ref", "", 0, 1, c, r)    \* a letter followed by digits
Fn(name)  == Lex("fn", name, 0, 1, 0, 0)   \* letters in front of "("
Chars(s)  == Lex("txt", s, 0, 1, 0, 0)     \* any other characters

RefId(tok) == <<tok.c, tok.r>>
IdRef(id) == Ref(id[1], id[2])

\* String.prototype.startsWith('=')
StartsWithEq(formula) == formula # <<>> /\ formula[1] = Op("=")

\* String.prototype.slice(1)
Slice1(formula) == SubSeq(formula, 2, Len(formula))

----------------------------------------------------------------------------
(* Texts.  Every JavaScript string of the program (formula text, string   *)
(* values, messages) is a sequence of lexemes; the empty sequence is the   *)
(* empty string, which JavaScript treats like undefined in a condition.    *)

NoText == <<>>

Sentinels == {"#VALUE!", "#NUM!", "#REF!", "#NAME!", "#ERROR!"}

\* String.prototype.startsWith('#')
StartsWithHash(text) ==
  text # <<>> /\ text[1].k = "txt" /\ text[1].s \in Sentinels

(* Values: number | string | undefined *)
Undefined == [t |-> "undef", n |-> 0, d |-> 1, x |-> <<>>]
StrV(text) == [t |-> "str", n |-> 0, d |-> 1, x |-> text]
\* a finite number n/d, d > 0, in lowest terms
NumQ(n, d) ==
  LET g == Gcd(Abs(n), d)
  IN  [t |-> "num", n |-> n \div g, d |-> d \div g, x |-> <<>>]
NumV(n) == [t |-> "num", n |-> n, d |-> 1, x |-> <<>>]
\* the non-finite numbers
PosInf == [t |-> "+inf", n |-> 0, d |-> 1, x |-> <<>>]
NegInf == [t |-> "-inf", n |-> 0, d |-> 1, x |-> <<>>]
NaN    == [t |-> "nan", n |-> 0, d |-> 1, x |-> <<>>]

IsNumber(v) == v.t \in {"num", "+inf", "-inf", "nan"}
IsFinite(v) == v.t = "num"

----------------------------------------------------------------------------
(* FormulaParser.ts: reference extraction and validation *)

\* the matches of CELL_REGEX, in text order
cellMatches(text) ==
  LET refs == SelectSeq(text, LAMBDA tok : tok.k = "ref")
  IN  [i \in DOMAIN refs |-> RefId(refs[i])]

\* the matches of RANGE_REGEX (ID:ID), left to right and non-overlapping
RECURSIVE rangeMatchesFrom(_, _)
rangeMatchesFrom(text, i) ==
  IF i + 2 > Len(text) THEN <<>>
  ELSE IF text[i].k = "ref" /\ text[i + 1] = Op(":") /\ text[i + 2].k = "ref"
       THEN <<[at |-> i, start |-> RefId(text[i]), end |-> RefId(text[i + 2])]>>
            \o rangeMatchesFrom(text, i + 3)
       ELSE rangeMatchesFrom(text, i + 1)

rangeMatches(text) == rangeMatchesFrom(text, 1)

\* variant: an expansion that runs from the first endpoint to the second
expandRange_oneWay(start, end) ==
  IF start[1] = end[1]
  THEN [k \in 1..(end[2] - start[2] + 1) |-> <<start[1], start[2] + k - 1>>]
  ELSE IF start[2] = end[2]
  THEN [k \in 1..(end[1] - start[1] + 1) |-> <<start[1] + k - 1, start[2]>>]
  ELSE <<>>

expandRange(start, end) ==
  LET startCol == start[1]
      endCol   == end[1]
      startRow == start[2]
      endRow   == end[2]
  IN  IF startCol = endCol
      THEN LET lo == Min2(startRow, endRow)
               hi == Max2(startRow, endRow)
           IN  [k \in 1..(hi - lo + 1) |-> <<startCol, lo + k - 1>>]
      ELSE IF startRow = endRow
      THEN LET lo == Min2(startCol, endCol)
               hi == Max2(startCol, endCol)
           IN  [k \in 1..(hi - lo + 1) |-> <<lo + k - 1, startRow>>]
      ELSE <<>>

RECURSIVE addRanges(_, _)
addRanges(cellRefs, ranges) ==
  IF ranges = <<>> THEN cellRefs
  ELSE addRanges(SetAddAll(cellRefs, expandRange(Head(ranges).start, Head(ranges).end)),
                 Tail(ranges))

extractCellReferences(formula) ==
  addRanges(SetAddAll(<<>>, cellMatches(formula)), rangeMatches(formula))

\* /^[A-J][1-5]$/
isValidCellReference(cellRef) ==
  /\ cellRef[1] \in 1..10
  /\ cellRef[2] \in 1..5

parseFormula(formula) ==
  IF ~StartsWithEq(formula) THEN [dependencies |-> <<>>]
  ELSE [dependencies |-> extractCellReferences(Slice1(formula))]

\* the running parenthesis counter of validateFormula: -1 as soon as it goes
\* negative, otherwise its final value
RECURSIVE parenScan(_, _, _)
parenScan(expression, i, parenCount) ==
  IF i > Len(expression) THEN parenCount
  ELSE LET c == expression[i]
           n == IF c = Op("(") THEN parenCount + 1
                ELSE IF c = Op(")") THEN parenCount - 1
                ELSE parenCount
       IN  IF n < 0 THEN -1 ELSE parenScan(expression, i + 1, n)

\* the first element of a sequence of identifiers that is no valid reference
RECURSIVE firstInvalid(_)
firstInvalid(refs) ==
  IF refs = <<>> THEN <<>>
  ELSE IF ~isValidCellReference(Head(refs)) THEN <<Head(refs)>>
  ELSE firstInvalid(Tail(refs))

\* the message of the SpreadsheetError returned, NoText for null
\* variant: a validation that accepts every formula
validateFormula_none(formula) == NoText

validateFormula(formula) ==
  IF ~StartsWithEq(formula) THEN NoText
  ELSE LET expression == Slice1(formula)
           parenCount == parenScan(expression, 1, 0)
           bad == firstInvalid(extractCellReferences(expression))
       IN  IF parenCount < 0 THEN <<Chars("Unmatched closing parenthesis")>>
           ELSE IF parenCount # 0 THEN <<Chars("Unmatched opening parenthesis")>>
           ELSE IF bad # <<>>
                THEN <<Chars("Invalid cell reference: "), IdRef(bad[1])>>
           ELSE NoText

----------------------------------------------------------------------------
(* JavaScript number arithmetic, exact on the finite values.  The sign of  *)
(* zero is not represented: a zero divisor counts as positive zero.        *)

Sign(v) ==
  IF v.t = "+inf" THEN 1
  ELSE IF v.t = "-inf" THEN -1
  ELSE IF v.n > 0 THEN 1
  ELSE IF v.n < 0 THEN -1
  ELSE 0

InfOf(sign) == IF sign > 0 THEN PosInf ELSE NegInf

jsNeg(a) ==
  IF a.t = "nan" THEN NaN
  ELSE IF a.t = "+inf" THEN NegInf
  ELSE IF a.t = "-inf" THEN PosInf
  ELSE NumQ(-a.n, a.d)

jsAdd(a, b) ==
  IF a.t = "nan" \/ b.t = "nan" THEN NaN
  ELSE IF a.t = "num" /\ b.t = "num" THEN NumQ(a.n * b.d + b.n * a.d, a.d * b.d)
  ELSE IF a.t = "num" THEN b
  ELSE IF b.t = "num" THEN a
  ELSE IF a.t = b.t THEN a
  ELSE NaN

jsSub(a, b) == jsAdd(a, jsNeg(b))

jsMul(a, b) ==
  IF a.t = "nan" \/ b.t = "nan" THEN NaN
  ELSE IF a.t = "num" /\ b.t = "num" THEN NumQ(a.n * b.n, a.d * b.d)
  ELSE IF Sign(a) = 0 \/ Sign(b) = 0 THEN NaN
  ELSE InfOf(Sign(a) * Sign(b))

jsDiv(a, b) ==
  IF a.t = "nan" \/ b.t = "nan" THEN NaN
  ELSE IF a.t = "num" /\ b.t = "num"
       THEN IF b.n = 0
            THEN (IF a.n = 0 THEN NaN ELSE InfOf(Sign(a)))
            ELSE IF b.n > 0 THEN NumQ(a.n * b.d, a.d * b.n)
            ELSE NumQ(-(a.n * b.d), a.d * (-b.n))
  ELSE IF a.t = "num" THEN NumV(0)
  ELSE IF b.t = "num" THEN InfOf(IF Sign(b) < 0 THEN -Sign(a) ELSE Sign(a))
  ELSE NaN

jsLess(a, b) == a.n * b.d < b.n * a.d

\* Math.round(result * 1000000) / 1000000 for a finite result
Round6(v) ==
  IF 1000000 % v.d = 0 THEN v
  ELSE LET whole == v.n \div v.d
           rest  == v.n % v.d
           frac  == (2 * rest * 1000000 + v.d) \div (2 * v.d)
       IN  NumQ(whole * 1000000 + frac, 1000000)

\* Number.prototype.toString
NumberToString(v) ==
  IF v.t = "nan" THEN <<Chars("NaN")>>
  ELSE IF v.t = "+inf" THEN <<Chars("Infinity")>>
  ELSE IF v.t = "-inf" THEN <<Chars("-Infinity")>>
  ELSE IF v.n < 0 THEN <<Op("-"), Dec(-v.n, v.d)>>
  ELSE <<Dec(v.n, v.d)>>

\* parseFloat: the longest numeric prefix of the string, NaN when none
parseFloat(text) ==
  IF text # <<>> /\ text[1].k = "num" THEN NumQ(text[1].n, text[1].d)
  ELSE IF Len(text) >= 2 /\ text[1] \in {Op("-"), Op("+")} /\ text[2].k = "num"
       THEN (IF text[1] = Op("-") THEN NumQ(-text[2].n, text[2].d)
             ELSE NumQ(text[2].n, text[2].d))
  ELSE IF text = <<Chars("Infinity")>> THEN PosInf
  ELSE IF text = <<Chars("-Infinity")>> THEN NegInf
  ELSE NaN

\* Array.prototype.join(' -> ') over cell identifiers
RECURSIVE JoinArrow(_)
JoinArrow(ids) ==
  IF ids = <<>> THEN <<>>
  ELSE IF Len(ids) = 1 THEN <<IdRef(ids[1])>>
  ELSE <<IdRef(ids[1]), Chars(" -> ")>> \o JoinArrow(Tail(ids))

\* `${value}` for a string or number value
ValueToString(v) == IF v.t = "str" THEN v.x ELSE NumberToString(v)

----------------------------------------------------------------------------
(* new Function('return ' + expression)() on text that passed the          *)
(* character filter: numbers, + - * / and parentheses.                     *)
(* Modelled fragment of the JavaScript grammar: unary and binary + -,      *)
(* binary * /, parentheses.  Text that JavaScript would read as a comment  *)
(* (two slashes, or slash star), as a regular expression literal (a slash  *)
(* where an operand is expected), as exponentiation (two stars) or as one  *)
(* literal written as two adjacent numbers is outside the fragment;        *)
(* InFragment says so and the inputs of the model are chosen inside it.    *)

ArithOps == {Op("+"), Op("-"), Op("*"), Op("/"), Op("("), Op(")")}

InFragment(text) ==
  \A i \in DOMAIN text :
    /\ text[i] = Op("/") =>
         /\ i > 1
         /\ text[i - 1].k \in {"num", "ref"} \/ text[i - 1] = Op(")")
    /\ (text[i] \in {Op("*"), Op("/")} /\ i < Len(text)) => text[i + 1] # Op("*")
    /\ (text[i].k \in {"num", "ref"} /\ i < Len(text)) =>
         text[i + 1].k \notin {"num", "ref"}

JsFail == [ok |-> FALSE, v |-> NaN, i |-> 0]
JsOk(v, i) == [ok |-> TRUE, v |-> v, i |-> i]

RECURSIVE jsAdditive(_, _), jsAddLoop(_, _), jsMultiplicative(_, _)
RECURSIVE jsMulLoop(_, _), jsUnary(_, _), jsPrimary(_, _)

\* a number, or a parenthesised expression; followed by "(" it would be a
\* call of a non-function, which throws
jsPrimary(text, i) ==
  IF i > Len(text) THEN JsFail
  ELSE With(IF text[i].k = "num" THEN JsOk(NumQ(text[i].n, text[i].d), i + 1)
            ELSE IF text[i] = Op("(")
            THEN With(jsAdditive(text, i + 1), LAMBDA e :
                   IF e.ok /\ e.i <= Len(text) /\ text[e.i] = Op(")")
                   THEN JsOk(e.v, e.i + 1)
                   ELSE JsFail)
            ELSE JsFail,
            LAMBDA r :
              IF r.ok /\ r.i <= Len(text) /\ text[r.i] = Op("(") THEN JsFail ELSE r)

\* "++" and "--" are the increment and decrement operators, which have no
\* valid operand in this text: a syntax error
jsUnary(text, i) ==
  IF i > Len(text) THEN JsFail
  ELSE IF text[i] \in {Op("+"), Op("-")}
       THEN IF i < Len(text) /\ text[i + 1] = text[i] THEN JsFail
            ELSE With(jsUnary(text, i + 1), LAMBDA r :
                   IF ~r.ok THEN JsFail
                   ELSE IF text[i] = Op("-") THEN JsOk(jsNeg(r.v), r.i)
                   ELSE r)
       ELSE jsPrimary(text, i)

jsMulLoop(text, acc) ==
  IF acc.i <= Len(text) /\ text[acc.i] \in {Op("*"), Op("/")}
  THEN With(jsUnary(text, acc.i + 1), LAMBDA r :
         IF ~r.ok THEN JsFail
         ELSE jsMulLoop(text, JsOk(IF text[acc.i] = Op("*")
                                   THEN jsMul(acc.v, r.v)
                                   ELSE jsDiv(acc.v, r.v), r.i)))
  ELSE acc

jsMultiplicative(text, i) ==
  With(jsUnary(text, i), LAMBDA r : IF ~r.ok THEN JsFail ELSE jsMulLoop(text, r))

jsAddLoop(text, acc) ==
  IF acc.i <= Len(text) /\ text[acc.i] \in {Op("+"), Op("-")}
  THEN IF acc.i < Len(text) /\ text[acc.i + 1] = text[acc.i] THEN JsFail
       ELSE With(jsMultiplicative(text, acc.i + 1), LAMBDA r :
              IF ~r.ok THEN JsFail
              ELSE jsAddLoop(text, JsOk(IF text[acc.i] = Op("+")
                                        THEN jsAdd(acc.v, r.v)
                                        ELSE jsSub(acc.v, r.v), r.i)))
  ELSE acc

jsAdditive(text, i) ==
  With(jsMultiplicative(text, i), LAMBDA r :
    IF ~r.ok THEN JsFail ELSE jsAddLoop(text, r))

\* the whole text must be one expression
jsEval(text) ==
  With(jsAdditive(text, 1), LAMBDA r :
    IF r.ok /\ r.i = Len(text) + 1 THEN r ELSE JsFail)

\* variant: a result that is not finite is reported as an error of syntax
evaluateExpression_finite(expression) ==
  IF expression # <<>> /\ \A i \in DOMAIN expression :
       expression[i].k = "num" \/ expression[i] \in ArithOps
  THEN With(jsEval(expression), LAMBDA result :
         IF ~result.ok \/ ~IsFinite(result.v) THEN StrV(<<Chars("#ERROR!")>>)
         ELSE Round6(result.v))
  ELSE StrV(<<Chars("#VALUE!")>>)

evaluateExpression(expression) ==
  IF expression # <<>> /\ \A i \in DOMAIN expression :
       expression[i].k = "num" \/ expression[i] \in ArithOps
  THEN With(jsEval(expression), LAMBDA result :
         IF ~result.ok THEN StrV(<<Chars("#ERROR!")>>)
         ELSE IF ~IsFinite(result.v) THEN StrV(<<Chars("#NUM!")>>)
         ELSE Round6(result.v))
  ELSE StrV(<<Chars("#VALUE!")>>)

----------------------------------------------------------------------------
(* FormulaParser.ts: evaluation *)

\* String.prototype.replace(pattern, replacement) with a string pattern:
\* the first occurrence only
ReplaceFirst(text, pat, rep) ==
  LET hits == {i \in 1..(Len(text) - Len(pat) + 1) :
                 SubSeq(text, i, i + Len(pat) - 1) = pat}
  IN  IF hits = {} THEN text
      ELSE LET i == CHOOSE j \in hits : \A k \in hits : j <= k
           IN  SubSeq(text, 1, i - 1) \o rep \o SubSeq(text, i + Len(pat), Len(text))

\* String.prototype.replace(new RegExp(cellRef, 'g'), replacement)
RECURSIVE ReplaceAll(_, _, _)
ReplaceAll(text, cellRef, rep) ==
  IF text = <<>> THEN <<>>
  ELSE (IF Head(text) = IdRef(cellRef) THEN rep ELSE <<Head(text)>>)
       \o ReplaceAll(Tail(text), cellRef, rep)

\* the ordering of Math.min and Math.max on numbers other than NaN
NumLess(a, b) ==
  IF a.t = "-inf" THEN b.t # "-inf"
  ELSE IF a.t = "+inf" THEN FALSE
  ELSE IF b.t = "-inf" THEN FALSE
  ELSE IF b.t = "+inf" THEN TRUE
  ELSE jsLess(a, b)

RECURSIVE SumOf(_)
SumOf(args) == IF args = <<>> THEN NumV(0) ELSE jsAdd(SumOf(Tail(args)), Head(args))

RECURSIVE MinOf(_)
MinOf(args) ==
  IF Len(args) = 1 THEN args[1]
  ELSE LET m == MinOf(Tail(args))
       IN  IF NumLess(m, Head(args)) THEN m ELSE Head(args)

RECURSIVE MaxOf(_)
MaxOf(args) ==
  IF Len(args) = 1 THEN args[1]
  ELSE LET m == MaxOf(Tail(args))
       IN  IF NumLess(Head(args), m) THEN m ELSE Head(args)

evaluateFunction(functionName, args) ==
  IF functionName = "SUM" THEN SumOf(args)
  ELSE IF functionName = "AVERAGE"
       THEN (IF Len(args) > 0 THEN jsDiv(SumOf(args), NumV(Len(args))) ELSE NumV(0))
  ELSE IF functionName = "MIN" THEN (IF Len(args) > 0 THEN MinOf(args) ELSE NumV(0))
  ELSE IF functionName = "MAX" THEN (IF Len(args) > 0 THEN MaxOf(args) ELSE NumV(0))
  ELSE IF functionName = "COUNT" THEN NumV(Len(args))
  ELSE StrV(<<Chars("#NAME!")>>)

\* the numbers pushed to args for a list of cells: undefined values and
\* values that do not parse as a number are skipped
RECURSIVE numericArgs(_, _)
numericArgs(cellIds, getCellValue) ==
  IF cellIds = <<>> THEN <<>>
  ELSE With(getCellValue[Head(cellIds)], LAMBDA cellValue :
       With(IF cellValue.t = "str" THEN parseFloat(cellValue.x) ELSE cellValue,
            LAMBDA numValue :
              (IF cellValue.t # "undef" /\ numValue.t # "nan" THEN <<numValue>> ELSE <<>>)
              \o numericArgs(Tail(cellIds), getCellValue)))

\* the members of all ranges of a list of range matches, in order
RECURSIVE rangeCellsOf(_)
rangeCellsOf(ranges) ==
  IF ranges = <<>> THEN <<>>
  ELSE expandRange(Head(ranges).start, Head(ranges).end) \o rangeCellsOf(Tail(ranges))

RECURSIVE removeRanges(_, _)
removeRanges(argsString, ranges) ==
  IF ranges = <<>> THEN argsString
  ELSE removeRanges(ReplaceFirst(argsString,
                                 <<IdRef(Head(ranges).start), Op(":"), IdRef(Head(ranges).end)>>,
                                 <<>>),
                    Tail(ranges))

\* the index of the ")" that closes the "(" at index i; i itself when none does
RECURSIVE closingParen(_, _, _, _)
closingParen(expression, open, i, parenCount) ==
  IF i > Len(expression) THEN open
  ELSE LET n == IF expression[i] = Op("(") THEN parenCount + 1
                ELSE IF expression[i] = Op(")") THEN parenCount - 1
                ELSE parenCount
       IN  IF expression[i] = Op(")") /\ n = 0 THEN i
           ELSE closingParen(expression, open, i + 1, n)

\* the matches of FUNCTION_REGEX: the indexes of a name followed by "("
functionMatches(expression) ==
  LET idx == {i \in 1..(Len(expression) - 1) :
                expression[i].k = "fn" /\ expression[i + 1] = Op("(")}
      RECURSIVE sorted(_)
      sorted(S) == IF S = {} THEN <<>>
                   ELSE LET m == CHOOSE x \in S : \A y \in S : x <= y
                        IN  <<m>> \o sorted(S \ {m})
  IN  sorted(idx)

\* one iteration of the loop over the function matches: the text after
\* substituting the call at startIndex by its result
\* args: the numbers of the ranges of argsString, then those of its
\* individual cells
\* variant: a cell whose value is missing or no number counts as zero
functionArgs_zero(argsString, ranges, getCellValue) ==
  LET ids == rangeCellsOf(ranges) \o cellMatches(removeRanges(argsString, ranges))
  IN  [i \in 1..Len(ids) |->
         IF getCellValue[ids[i]].t = "num" THEN getCellValue[ids[i]] ELSE NumV(0)]

functionArgs(argsString, ranges, getCellValue) ==
  numericArgs(rangeCellsOf(ranges) \o cellMatches(removeRanges(argsString, ranges)),
              getCellValue)

substituteCall(expression, processedExpression, startIndex, getCellValue) ==
  With(closingParen(expression, startIndex + 1, startIndex + 1, 0), LAMBDA endIndex :
    With(SubSeq(expression, startIndex + 2, endIndex - 1), LAMBDA argsString :
      ReplaceFirst(processedExpression,
                   SubSeq(expression, startIndex, endIndex),
                   ValueToString(
                     evaluateFunction(expression[startIndex].s,
                                      functionArgs(argsString, rangeMatches(argsString),
                                                   getCellValue))))))

RECURSIVE substituteCalls(_, _, _, _)
substituteCalls(expression, processedExpression, matches, getCellValue) ==
  IF matches = <<>> THEN processedExpression
  ELSE substituteCalls(expression,
                       substituteCall(expression, processedExpression,
                                      Head(matches), getCellValue),
                       Tail(matches), getCellValue)

EvalResult(value, error, dependencies) ==
  [value |-> value, error |-> error, dependencies |-> dependencies]

\* the loop over the dependencies of a formula without function calls: each
\* reference is replaced by the text of its value; the first string value
\* that is no number ends the evaluation
RECURSIVE substituteRefs(_, _, _, _)
substituteRefs(processedExpression, refs, dependencies, getCellValue) ==
  IF refs = <<>>
  THEN With(evaluateExpression(processedExpression), LAMBDA result :
         EvalResult(result,
                    IF result.t = "str" /\ StartsWithHash(result.x) THEN result.x
                    ELSE NoText,
                    dependencies))
  ELSE With(Head(refs), LAMBDA cellRef :
       With(getCellValue[cellRef], LAMBDA cellValue :
       With(IF cellValue.t = "str" THEN parseFloat(cellValue.x) ELSE cellValue,
            LAMBDA numValue :
              IF cellValue.t = "str" /\ numValue.t = "nan"
              THEN EvalResult(StrV(<<Chars("#VALUE!")>>),
                              <<Chars("Non-numeric value in cell "), IdRef(cellRef),
                                Chars(": ")>> \o cellValue.x,
                              dependencies)
              ELSE substituteRefs(ReplaceAll(processedExpression, cellRef,
                                             IF cellValue.t = "undef" THEN <<Num(0)>>
                                             ELSE NumberToString(numValue)),
                                  Tail(refs), dependencies, getCellValue))))

\* getCellValue is a function from the identifiers of the grid to values
\* the branch of evaluateFormula taken when the expression holds a function
\* call; processedExpression is the text after the loop over the calls
evaluateCalls(processedExpression, dependencies) ==
  IF StartsWithHash(processedExpression)
  THEN EvalResult(StrV(processedExpression), processedExpression, dependencies)
  ELSE With(evaluateExpression(processedExpression), LAMBDA finalResult :
         EvalResult(finalResult,
                    IF finalResult.t = "str" /\ StartsWithHash(finalResult.x)
                    THEN finalResult.x ELSE NoText,
                    dependencies))

evaluateFormula(formula, getCellValue) ==
  IF ~StartsWithEq(formula) THEN EvalResult(StrV(formula), NoText, <<>>)
  ELSE
    With(Slice1(formula), LAMBDA expression :
    With(extractCellReferences(expression), LAMBDA dependencies :
    With(firstInvalid(dependencies), LAMBDA bad :
    With(functionMatches(expression), LAMBDA matches :
      IF bad # <<>>
      THEN EvalResult(StrV(<<Chars("#REF!")>>),
                      <<Chars("Invalid cell reference: "), IdRef(bad[1])>>, <<>>)
      ELSE IF matches # <<>>
      THEN evaluateCalls(substituteCalls(expression, expression, matches, getCellValue),
                         dependencies)
      ELSE substituteRefs(expression, dependencies, dependencies, getCellValue)))))

----------------------------------------------------------------------------
(* DependencyGraph.ts.  The graph is a record of two maps from cell        *)
(* identifiers to insertion-ordered sets; a key that is absent from a map  *)
(* is not in the DOMAIN of the function.  The map dependents is only ever  *)
(* read through get(key) || [], which does not tell an empty set from an   *)
(* absent key: it is kept without keys for empty sets.                     *)

EmptyGraph == [dependencies |-> <<>>, dependents |-> <<>>]

\* Map.prototype.set
MapSet(map, key, val) ==
  [k \in (DOMAIN map) \cup {key} |-> IF k = key THEN val ELSE map[k]]

\* Map.prototype.delete
MapDelete(map, key) == [k \in (DOMAIN map) \ {key} |-> map[k]]

\* map.get(key) || []
MapGet(map, key) == IF key \in DOMAIN map THEN map[key] ELSE <<>>

\* variant: an addDependency that records the edge in the forward map only
addDependency_forward(graph, dependent, dependency) ==
  [dependencies |-> MapSet(graph.dependencies, dependent,
                           SetAdd(MapGet(graph.dependencies, dependent), dependency)),
   dependents   |-> graph.dependents]

addDependency(graph, dependent, dependency) ==
  [dependencies |-> MapSet(graph.dependencies, dependent,
                           SetAdd(MapGet(graph.dependencies, dependent), dependency)),
   dependents   |-> MapSet(graph.dependents, dependency,
                           SetAdd(MapGet(graph.dependents, dependency), dependent))]

\* variant: a removeDependencies that leaves the edges in place
removeDependencies_kept(graph, cell) == graph

removeDependencies(graph, cell) ==
  IF cell \in DOMAIN graph.dependencies
  THEN LET deps == graph.dependencies[cell]
           cellDependents(k) == IF k \in Range(deps)
                                THEN SetDelete(graph.dependents[k], cell)
                                ELSE graph.dependents[k]
       IN  [dependencies |-> MapDelete(graph.dependencies, cell),
            dependents   |-> [k \in {j \in DOMAIN graph.dependents :
                                       cellDependents(j) # <<>>} |->
                                cellDependents(k)]]
  ELSE graph

getDependencies(graph, cell) == MapGet(graph.dependencies, cell)

getDependents(graph, cell) == MapGet(graph.dependents, cell)

\* the depth-first search of checkCircularReference; st holds the sets
\* visited and recursionStack, the array path and the boolean returned
RECURSIVE hasCycle(_, _, _), hasCycleLoop(_, _, _)

hasCycleLoop(tempGraph, st, deps) ==
  IF deps = <<>> THEN st
  ELSE With(hasCycle(tempGraph, st, Head(deps)), LAMBDA r :
         IF r.found THEN r ELSE hasCycleLoop(tempGraph, r, Tail(deps)))

hasCycle(tempGraph, st, node) ==
  IF node \in st.recursionStack THEN [st EXCEPT !.found = TRUE]
  ELSE IF node \in st.visited THEN [st EXCEPT !.found = FALSE]
  ELSE With(hasCycleLoop(tempGraph,
                         [visited        |-> st.visited \cup {node},
                          recursionStack |-> st.recursionStack \cup {node},
                          path           |-> Append(st.path, node),
                          found          |-> FALSE],
                         MapGet(tempGraph, node)),
            LAMBDA r :
              IF r.found THEN r
              ELSE [r EXCEPT !.recursionStack = r.recursionStack \ {node},
                             !.path = SubSeq(r.path, 1, Len(r.path) - 1)])

\* Array.prototype.indexOf, counted from 1; 0 when absent
IndexOf(seq, x) ==
  IF x \in Range(seq) THEN CHOOSE i \in DOMAIN seq :
                             seq[i] = x /\ \A j \in DOMAIN seq : seq[j] = x => i <= j
  ELSE 0

NoCycle == [found |-> FALSE, message |-> NoText, chain |-> <<>>]

\* null is NoCycle; otherwise the message and chain of the error
\* the error returned for the path the search ended with
circularError(path, cell) ==
  With(IndexOf(path, cell), LAMBDA cycleStart :
  With(SubSeq(path, IF cycleStart = 0 THEN Len(path) ELSE cycleStart, Len(path))
       \o <<cell>>,
       LAMBDA cycle :
         [found |-> TRUE,
          message |-> <<Chars("Circular reference detected: ")>> \o JoinArrow(cycle),
          chain |-> cycle]))

\* variant: a check that finds no cycle
checkCircularReference_unchecked(graph, cell, cellDependencies) == NoCycle

checkCircularReference(graph, cell, cellDependencies) ==
  With(hasCycle(MapSet(graph.dependencies, cell, SetAddAll(<<>>, cellDependencies)),
                [visited |-> {}, recursionStack |-> {}, path |-> <<>>, found |-> FALSE],
                cell),
       LAMBDA r : IF r.found THEN circularError(r.path, cell) ELSE NoCycle)

\* the traversal of getAllDependents; st holds the set visited and the
\* array result
RECURSIVE collectDependents(_, _, _), collectLoop(_, _, _)

collectLoop(graph, st, directDependents) ==
  IF directDependents = <<>> THEN st
  ELSE collectLoop(graph,
                   collectDependents(graph,
                                     [st EXCEPT !.result = Append(@, Head(directDependents))],
                                     Head(directDependents)),
                   Tail(directDependents))

collectDependents(graph, st, currentCell) ==
  IF currentCell \in st.visited THEN st
  ELSE collectLoop(graph, [st EXCEPT !.visited = @ \cup {currentCell}],
                   getDependents(graph, currentCell))

\* variant: the direct dependents only
getAllDependents_direct(graph, cell) == getDependents(graph, cell)

\* variant: a traversal without the set visited, cut off at a depth of 8
RECURSIVE revisit(_, _, _)
revisit(graph, directDependents, depth) ==
  IF directDependents = <<>> \/ depth = 0 THEN <<>>
  ELSE <<Head(directDependents)>>
       \o revisit(graph, getDependents(graph, Head(directDependents)), depth - 1)
       \o revisit(graph, Tail(directDependents), depth)

getAllDependents_revisiting(graph, cell) ==
  revisit(graph, getDependents(graph, cell), 8)

getAllDependents(graph, cell) ==
  collectDependents(graph, [visited |-> {}, result |-> <<>>], cell).result

RECURSIVE SumLen(_, _)
SumLen(map, keys) ==
  IF keys = {} THEN 0
  ELSE LET k == CHOOSE x \in keys : TRUE
       IN  Len(map[k]) + SumLen(map, keys \ {k})

graphStats(graph) ==
  [totalDependencies |-> SumLen(graph.dependencies, DOMAIN graph.dependencies),
   totalCells |-> Cardinality(DOMAIN graph.dependencies)]

----------------------------------------------------------------------------
(* SpreadsheetEngine.ts.  data.cells is a function from the identifiers    *)
(* that are keys of the object to cell records, together with the order    *)
(* in which Object.entries lists the keys.                                 *)

\* /^([A-J])([1-5])$/ and the index checks that follow it
\* variant: a check of the column only
isValidCellId_anyRow(cellId) ==
  /\ cellId[1] \in 1..10
  /\ cellId[1] - 1 >= 0 /\ cellId[1] - 1 < GRID_COLS

isValidCellId(cellId) ==
  /\ cellId[1] \in 1..10 /\ cellId[2] \in 1..5
  /\ cellId[1] - 1 >= 0 /\ cellId[1] - 1 < GRID_COLS
  /\ cellId[2] - 1 >= 0 /\ cellId[2] - 1 < GRID_ROWS

GridIds == (1..GRID_COLS) \X (1..GRID_ROWS)

CellData(id, value, formula, error, dependents, dependencies) ==
  [id |-> id, value |-> value, formula |-> formula, error |-> error,
   dependents |-> dependents, dependencies |-> dependencies]

getRawValue(cells, cellId) ==
  IF cellId \notin DOMAIN cells THEN Undefined
  ELSE LET cell == cells[cellId]
       IN  IF cell.error # NoText /\ cell.value.t = "str" /\ StartsWithHash(cell.value.x)
           THEN cell.value
           ELSE IF cell.error # NoText THEN StrV(cell.error)
           ELSE cell.value

\* variant: an accessor that reads a string as the number zero
cellValues_zero(cells) ==
  [id \in GridIds |->
     IF getRawValue(cells, id).t = "str" THEN NumV(0) ELSE getRawValue(cells, id)]

\* variant: an accessor that reads a missing cell as the empty string
cellValues_blank(cells) ==
  [id \in GridIds |->
     IF getRawValue(cells, id).t = "undef" THEN StrV(<<>>) ELSE getRawValue(cells, id)]

\* the accessor handed to evaluateFormula
cellValues(cells) == [id \in GridIds |-> getRawValue(cells, id)]

getFormula(cells, cellId) ==
  IF cellId \in DOMAIN cells THEN cells[cellId].formula ELSE NoText

get(cells, cellId) == IF cellId \in DOMAIN cells THEN <<cells[cellId]>> ELSE <<>>

\* the loop of recalculateDependents over a list of dependents: each stored
\* formula is evaluated against the cells as they are at that moment and the
\* record is updated in place
RECURSIVE recalculateLoop(_, _)
recalculateLoop(cells, dependentList) ==
  IF dependentList = <<>> THEN cells
  ELSE With(Head(dependentList), LAMBDA dependent :
         recalculateLoop(
           IF dependent \in DOMAIN cells /\ cells[dependent].formula # NoText
           THEN With(evaluateFormula(cells[dependent].formula, cellValues(cells)),
                     LAMBDA result : [cells EXCEPT ![dependent].value = result.value,
                                                   ![dependent].error = result.error])
           ELSE cells,
           Tail(dependentList)))

\* variant: a recalculateDependents that visits no dependent
recalculateDependents_none(cells, graph, cellId) == cells

recalculateDependents(cells, graph, cellId) ==
  recalculateLoop(cells, getAllDependents(graph, cellId))

\* the records recalculateDependents writes to
recalculated(cells, graph, cellId) ==
  {d \in Range(getAllDependents(graph, cellId)) :
     d \in DOMAIN cells /\ cells[d].formula # NoText}

\* variant: a store that drops the assignment
Store_dropped(cells, cellId, record) == cells

\* data.cells[cellId] = record
Store(cells, cellId, record) == MapSet(cells, cellId, record)
StoreOrder(order, cellId) == SetAdd(order, cellId)

\* variant: a registration that adds no edge
addDependencies_none(graph, cellId, deps) == graph

\* variant: a registration that also makes each dependency depend on the cell
RECURSIVE addDependencies_mutual(_, _, _)
addDependencies_mutual(graph, cellId, deps) ==
  IF deps = <<>> THEN graph
  ELSE addDependencies_mutual(addDependency(addDependency(graph, cellId, Head(deps)),
                                            Head(deps), cellId),
                              cellId, Tail(deps))

RECURSIVE addDependencies(_, _, _)
addDependencies(graph, cellId, deps) ==
  IF deps = <<>> THEN graph
  ELSE addDependencies(addDependency(graph, cellId, Head(deps)), cellId, Tail(deps))

\* rebuildDependencyGraph: the graph derived from the formulas of the cells,
\* visited in key order
RECURSIVE rebuildLoop(_, _, _)
rebuildLoop(graph, cells, keys) ==
  IF keys = <<>> THEN graph
  ELSE LET cell == cells[Head(keys)]
       IN  rebuildLoop(IF cell.formula # NoText
                       THEN addDependencies(graph, Head(keys),
                                            parseFormula(cell.formula).dependencies)
                       ELSE graph,
                       cells, Tail(keys))

\* variant: a rebuild that registers nothing
rebuildDependencyGraph_none(cells, order) == EmptyGraph

rebuildDependencyGraph(cells, order) == rebuildLoop(EmptyGraph, cells, order)

\* What one call of set does.  ret is the value returned; stored says that
\* data.cells[cellId] was assigned a new record; bumped that lastModified and
\* version were updated; notified counts the calls of notifyChange;
\* recalculated is the set of records recalculateDependents wrote to.
SetResult(ret, outcome, cells, order, graph, stored, bumped, notified, recalc) ==
  [ret |-> ret, outcome |-> outcome, cells |-> cells, order |-> order,
   graph |-> graph, stored |-> stored, bumped |-> bumped, notified |-> notified,
   recalculated |-> recalc]

\* oldCell?.dependents || []
oldDependents(cells, cellId) ==
  IF cellId \in DOMAIN cells THEN cells[cellId].dependents ELSE <<>>

\* if (oldCell?.formula) dependencyGraph.removeDependencies(cellId)
detachOld(cells, graph, cellId) ==
  IF cellId \in DOMAIN cells /\ cells[cellId].formula # NoText
  THEN removeDependencies(graph, cellId)
  ELSE graph

\* variant: the early returns register the edges of the formula they reject
setRejected_wired(outcome, cells, order, graph, cellId, formula, message) ==
  SetResult(FALSE, outcome,
            Store(cells, cellId,
                  CellData(cellId, Undefined, formula, message,
                           oldDependents(cells, cellId), <<>>)),
            StoreOrder(order, cellId),
            addDependencies(graph, cellId, parseFormula(formula).dependencies),
            TRUE, FALSE, 1, {})

\* the two early returns of set that store the formula with a message and
\* neither value nor dependencies
setRejected(outcome, cells, order, graph, cellId, formula, message) ==
  SetResult(FALSE, outcome,
            Store(cells, cellId,
                  CellData(cellId, Undefined, formula, message,
                           oldDependents(cells, cellId), <<>>)),
            StoreOrder(order, cellId), graph, TRUE, FALSE, 1, {})

\* the end of set, after the record is stored: lastModified, version,
\* recalculateDependents, notifyChange, return true
setCommitted(stored, order, graph, cellId) ==
  SetResult(TRUE, "accepted",
            recalculateDependents(stored, graph, cellId),
            StoreOrder(order, cellId), graph, TRUE, TRUE, 1,
            recalculated(stored, graph, cellId))

\* variant: a set that returns true when the evaluation gave an error
setEvaluated_true(cells, order, graph, cellId, formula, dependencies, result) ==
  With(Store(cells, cellId,
             CellData(cellId, result.value, formula, result.error,
                      oldDependents(cells, cellId), dependencies)),
       LAMBDA evaluated :
         IF result.error # NoText
         THEN SetResult(TRUE, "evaluation", evaluated, StoreOrder(order, cellId),
                        graph, TRUE, FALSE, 1, {})
         ELSE setCommitted(evaluated, order, graph, cellId))

\* set once the formula is evaluated: the record holds the result either
\* way, and an error returns before the end of set
setEvaluated(cells, order, graph, cellId, formula, dependencies, result) ==
  With(Store(cells, cellId,
             CellData(cellId, result.value, formula, result.error,
                      oldDependents(cells, cellId), dependencies)),
       LAMBDA evaluated :
         IF result.error # NoText
         THEN SetResult(FALSE, "evaluation", evaluated, StoreOrder(order, cellId),
                        graph, TRUE, FALSE, 1, {})
         ELSE setCommitted(evaluated, order, graph, cellId))

\* the branch of set for a formula; graph is the graph without the edges of
\* the old formula
setFormula(cells, order, graph, cellId, formula) ==
  With(validateFormula(formula), LAMBDA formulaError :
    IF formulaError # NoText
    THEN setRejected("validation", cells, order, graph, cellId, formula, formulaError)
    ELSE
      With(parseFormula(formula).dependencies, LAMBDA dependencies :
      With(checkCircularReference(graph, cellId, dependencies), LAMBDA circular :
        IF circular.found
        THEN setRejected("circular", cells, order, graph, cellId, formula,
                         circular.message)
        ELSE setEvaluated(cells, order, addDependencies(graph, cellId, dependencies),
                          cellId, formula, dependencies,
                          evaluateFormula(formula, cellValues(cells))))))

\* the branch of set for a literal
setLiteral(cells, order, graph, cellId, value) ==
  setCommitted(Store(cells, cellId,
                     CellData(cellId, value, NoText, NoText,
                              oldDependents(cells, cellId), <<>>)),
               order, graph, cellId)

set(cells, order, graph, cellId, value, formula) ==
  IF ~isValidCellId(cellId)
  THEN SetResult(FALSE, "invalid", cells, order, graph, FALSE, FALSE, 0, {})
  ELSE IF formula # NoText
  THEN setFormula(cells, order, detachOld(cells, graph, cellId), cellId, formula)
  ELSE setLiteral(cells, order, detachOld(cells, graph, cellId), cellId, value)

\* What one call of clearCell does, in the same terms; removed says that the
\* key was deleted
\* variant: a clearCell that returns true and removes nothing
clearCell_kept(cells, order, graph, cellId) ==
  SetResult(TRUE, "absent", cells, order, graph, FALSE, FALSE, 0, {})

clearCell(cells, order, graph, cellId) ==
  IF ~isValidCellId(cellId)
  THEN SetResult(FALSE, "invalid", cells, order, graph, FALSE, FALSE, 0, {})
  ELSE IF cellId \notin DOMAIN cells
  THEN SetResult(TRUE, "absent", cells, order, graph, FALSE, FALSE, 0, {})
  ELSE LET detached == removeDependencies(graph, cellId)
           deleted == MapDelete(cells, cellId)
       IN  SetResult(TRUE, "cleared",
                     recalculateDependents(deleted, detached, cellId),
                     SetDelete(order, cellId), detached, TRUE, TRUE, 1,
                     recalculated(deleted, detached, cellId))

\* the object returned by exportData: a new object with a new cells object
\* that holds the same records
exportData(cells, order, version, lastModified) ==
  [taken |-> TRUE, cells |-> [k \in DOMAIN cells |-> cells[k]], order |-> order,
   lastModified |-> lastModified, version |-> version]

\* variant: an import that leaves out the records that carry an error
importData_valid(newData) ==
  LET kept == {k \in DOMAIN newData.cells : newData.cells[k].error = NoText}
      keptOrder == SelectSeq(newData.order, LAMBDA k : k \in kept)
      keptCells == [k \in kept |-> newData.cells[k]]
  IN  [cells |-> keptCells,
       order |-> keptOrder,
       lastModified |-> newData.lastModified,
       version |-> newData.version,
       graph |-> rebuildDependencyGraph(keptCells, keptOrder)]

\* the data and the graph of an engine after importData(newData)
importData(newData) ==
  [cells |-> [k \in DOMAIN newData.cells |-> newData.cells[k]],
   order |-> newData.order,
   lastModified |-> newData.lastModified,
   version |-> newData.version,
   graph |-> rebuildDependencyGraph(newData.cells, newData.order)]

\* the data and the graph of createSpreadsheetEngine(initialData): the data
\* is the object passed in, the graph is built from it
createSpreadsheetEngine(initialData) ==
  [cells |-> initialData.cells,
   order |-> initialData.order,
   lastModified |-> initialData.lastModified,
   version |-> initialData.version,
   graph |-> rebuildDependencyGraph(initialData.cells, initialData.order)]

\* getStats of the engine
getStats(cells, graph) ==
  [totalCells |-> Cardinality(DOMAIN cells),
   formulaCells |-> Cardinality({c \in DOMAIN cells : cells[c].formula # NoText}),
   calculations |-> graphStats(graph).totalDependencies]

----------------------------------------------------------------------------
(* The inputs of the model *)

A1 == <<1, 1>>
B1 == <<2, 1>>
C1 == <<3, 1>>
D1 == <<4, 1>>
Z9 == <<26, 9>>

\* identifiers outside the grid: another column, another row
BadIds == {<<26, 1>>, <<1, 6>>}

F(text) == <<Op("=")>> \o text
R(id) == <<IdRef(id)>>
Plus(a, b) == a \o <<Op("+")>> \o b

Hello == StrV(<<Chars("Hello")>>)

\* the values written as literals
Literals == {NumV(1), Hello}

Cells == {A1, B1, C1}

Unbalanced == F(<<Op("(")>> \o R(A1))
OffGrid == F(Plus(R(Z9), <<Num(1)>>))

\* the formulas written, per cell: references that can close cycles of one,
\* two and three cells, and the two kinds of formula that fail validation
FormulasOf ==
  [c \in Cells |->
     IF c = A1 THEN {F(R(B1)), F(R(A1)), Unbalanced, OffGrid}
     ELSE IF c = B1 THEN {F(R(A1)), F(R(C1))}
     ELSE {F(R(A1))}]

\* the cells written with literals; C1 is written with a formula only
LiteralCells == {A1, B1}

\* the writes offered to the engine: <<identifier, value, formula>>
Writes ==
  {<<c, v, NoText>> : c \in LiteralCells, v \in Literals}
  \cup UNION {{<<c, Undefined, f>> : f \in FormulasOf[c]} : c \in Cells}

\* the writes offered to an engine that is saved and reloaded: some of Writes
SavedWrites ==
  {<<A1, NumV(1), NoText>>, <<A1, Hello, NoText>>, <<B1, NumV(1), NoText>>,
   <<A1, Undefined, F(R(B1))>>, <<A1, Undefined, F(R(A1))>>,
   <<B1, Undefined, F(R(A1))>>, <<C1, Undefined, F(R(A1))>>}

\* the writes and clears that name identifiers outside the grid, next to a
\* few that are inside
AddrCells == {A1, B1}
AddrWrites ==
  {<<c, v, NoText>> : c \in AddrCells \cup BadIds, v \in Literals}
  \cup {<<c, Undefined, F(R(A1))>> : c \in AddrCells \cup BadIds}

\* the writes of the propagation scenarios: a cell read directly and through
\* two other cells
PropCells == {A1, B1, C1, D1}
PropWrites ==
  {<<A1, v, NoText>> : v \in {NumV(1), NumV(2), Hello}}
  \cup {<<B1, Undefined, F(R(A1))>>,
        <<C1, Undefined, F(Plus(R(A1), R(B1)))>>,
        <<D1, Undefined, F(R(C1))>>,
        <<D1, Undefined, F(Plus(R(A1), R(C1)))>>}

\* the writes offered to an engine whose caller holds on to a snapshot
HeldCells == {A1, B1}
HeldWrites ==
  {<<A1, NumV(1), NoText>>, <<A1, Hello, NoText>>,
   <<B1, Undefined, F(R(A1))>>, <<A1, Undefined, F(R(B1))>>}

\* the callbacks registered and the writes offered while they are: accepted
\* ones and ones rejected by the validation, as circular, and by the
\* evaluation (B1 reading A1 = 'Hello')
Observers == {"first", "second"}
ObservedCells == {A1, B1}
ObservedWrites ==
  {<<A1, Hello, NoText>>, <<B1, Undefined, F(R(A1))>>,
   <<A1, Undefined, F(R(A1))>>, <<A1, Undefined, Unbalanced>>}

\* Arithmetic expressions as trees: a number, a reference, a parenthesised
\* expression, or two expressions joined by one of + - * /
NumE(n) == [k |-> "num", n |-> n, id |-> <<0, 0>>, args |-> <<>>]
RefE(id) == [k |-> "ref", n |-> 0, id |-> id, args |-> <<>>]
ParE(e) == [k |-> "par", n |-> 0, id |-> <<0, 0>>, args |-> <<e>>]
BinE(op, l, r) == [k |-> op, n |-> 0, id |-> <<0, 0>>, args |-> <<l, r>>]

\* the text of an expression
RECURSIVE Render(_)
Render(e) ==
  IF e.k = "num" THEN <<Num(e.n)>>
  ELSE IF e.k = "ref" THEN R(e.id)
  ELSE IF e.k = "par" THEN <<Op("(")>> \o Render(e.args[1]) \o <<Op(")")>>
  ELSE Render(e.args[1]) \o <<Op(e.k)>> \o Render(e.args[2])

A2 == <<1, 2>>

\* the arithmetic formulas written: a sum, a difference whose right operand
\* is a reference, a product of a parenthesised sum, a quotient
Arithmetic ==
  {BinE("+", RefE(A1), RefE(B1)),
   BinE("-", NumE(10), RefE(A1)),
   BinE("*", ParE(BinE("+", RefE(A1), RefE(B1))), NumE(2)),
   BinE("/", RefE(A1), NumE(2))}

Call1(name, args) == <<Fn(name), Op("(")>> \o args \o <<Op(")")>>

\* formulas that join a call and a reference outside it: =SUM(A1:A2)+B1
Mixed == {F(Plus(Call1("SUM", R(A1) \o <<Op(":")>> \o R(A2)), R(B1)))}

\* formulas that call a function the evaluator does not know, alone and as
\* an operand: =UNKNOWN(A1), =2*UNKNOWN(A1)
UnknownCalls ==
  {F(Call1("UNKNOWN", R(A1))),
   F(<<Num(2), Op("*")>> \o Call1("UNKNOWN", R(A1)))}

\* the writes of the evaluation scenarios: numbers (negative, zero and
\* positive) in the cells read, formulas in C1
EvalCells == {A1, A2, B1}
EvalWrites ==
  {<<A1, NumV(n), NoText>> : n \in {-5, 0, 2}}
  \cup {<<A2, NumV(1), NoText>>, <<B1, NumV(3), NoText>>}
  \cup {<<C1, Undefined, F(Render(e))>> : e \in Arithmetic}
  \cup {<<C1, Undefined, f>> : f \in Mixed \cup UnknownCalls}

\* the caps on the version counter
MaxVersion == 3
MaxPropVersion == 5
MaxEvalVersion == 5

----------------------------------------------------------------------------
(* State *)

VARIABLES
  cells,         \* data.cells
  order,         \* the key order of data.cells
  version,       \* data.version
  lastModified,  \* data.lastModified: the number of times it was assigned
  graph,         \* dependencyGraph
  snapshot,      \* the last object returned by exportData, if any
  shared,        \* keys whose record is one object in data.cells and snapshot
  changeListeners, \* the callbacks registered with onChange
  lastOp         \* the last call made and what it returned

vars == <<cells, order, version, lastModified, graph, snapshot, shared,
          changeListeners, lastOp>>

NoSnapshot ==
  [taken |-> FALSE, cells |-> <<>>, order |-> <<>>, version |-> 0, lastModified |-> 0]

IsCircularMessage(text) ==
  text # <<>> /\ text[1] = Chars("Circular reference detected: ")

\* what a cell holds: nothing, a literal, a formula with a value, or a
\* formula with the error of a circular reference, of an evaluation (the
\* value is then a sentinel) or of a validation
Holds(cs, cellId) ==
  IF cellId \notin DOMAIN cs THEN "absent"
  ELSE IF cs[cellId].formula = NoText THEN "literal"
  ELSE IF cs[cellId].error = NoText THEN "formula"
  ELSE IF IsCircularMessage(cs[cellId].error) THEN "circular"
  ELSE IF cs[cellId].value.t = "str" THEN "evaluation"
  ELSE "validation"

\* what a callback that reads the engine finds
View(cs, g, v) == [cells |-> cs, graph |-> g, version |-> v]

\* variant: a notifyChange that calls nobody
notifyChange_none(listeners, view) == [o \in listeners |-> <<>>]

\* changeListeners.forEach(callback => callback()): per callback, the views
\* it was called with
notifyChange(listeners, view) == [o \in listeners |-> <<view>>]

\* the calls a callback receives from an operation that runs notifyChange
\* `notified` times, always as its last statement before it returns
Seen(notified, view) ==
  IF notified = 0 THEN [o \in changeListeners |-> <<>>]
  ELSE notifyChange(changeListeners, view)

\* the pairs <<c, d>> such that c is registered as depending on d
Edges(g) ==
  UNION {{<<c, d>> : d \in Range(g.dependencies[c])} : c \in DOMAIN g.dependencies}

\* the record of a call: the operation, its argument, what the cell held
\* before, what the call returned, how often it notified the observers,
\* the cells it took from an evaluation error to a value, what each
\* callback was shown, and (for the calls that name no cell) the edges of
\* the graph that the call dropped
Call(op, cellId, r) ==
  [op |-> op, cellId |-> cellId, prior |-> Holds(cells, cellId), ret |-> r.ret,
   outcome |-> r.outcome, notified |-> r.notified,
   recovered |-> {c \in DOMAIN cells : /\ Holds(cells, c) = "evaluation"
                                       /\ Holds(r.cells, c) = "formula"},
   seen |-> Seen(r.notified,
                 View(r.cells, r.graph, IF r.bumped THEN version + 1 ELSE version)),
   dropped |-> {}]

\* the record of a call that names no cell and leaves the engine with the
\* cells cs, the graph g and the version v
Whole(op, outcome, notified, cs, g, v) ==
  [op |-> op, cellId |-> <<0, 0>>, prior |-> "absent", ret |-> TRUE,
   outcome |-> outcome, notified |-> notified, recovered |-> {},
   seen |-> Seen(notified, View(cs, g, v)),
   dropped |-> Edges(graph) \ Edges(g)]

\* createSpreadsheetEngine() without initial data
Init ==
  /\ cells = <<>>
  /\ order = <<>>
  /\ version = 1
  /\ lastModified = 0
  /\ graph = rebuildDependencyGraph(<<>>, <<>>)
  /\ snapshot = NoSnapshot
  /\ shared = {}
  /\ changeListeners = {}
  /\ lastOp = [op |-> "create", cellId |-> <<0, 0>>, prior |-> "absent", ret |-> TRUE,
               outcome |-> "created", notified |-> 0, recovered |-> {},
               seen |-> <<>>, dropped |-> {}]

\* the effect of a call of set or clearCell on the state; records that
\* recalculateDependents updated in place are updated in the snapshot that
\* shares them
Apply(op, cellId, r, cap) ==
  LET stillShared == IF r.stored THEN shared \ {cellId} ELSE shared
  IN  /\ r.bumped => version < cap
      /\ cells' = r.cells
      /\ order' = r.order
      /\ graph' = r.graph
      /\ version' = IF r.bumped THEN version + 1 ELSE version
      /\ lastModified' = IF r.bumped THEN lastModified + 1 ELSE lastModified
      /\ shared' = stillShared
      /\ snapshot' = [snapshot EXCEPT !.cells =
                        [k \in DOMAIN @ |->
                           IF k \in stillShared \cap r.recalculated
                           THEN r.cells[k] ELSE @[k]]]
      /\ lastOp' = Call(op, cellId, r)
      /\ UNCHANGED changeListeners

Set(cellId, value, formula, cap) ==
  Apply("set", cellId, set(cells, order, graph, cellId, value, formula), cap)

\* a call of set that returns true
SetAccepted(cellId, value, formula, cap) ==
  /\ set(cells, order, graph, cellId, value, formula).ret
  /\ Set(cellId, value, formula, cap)

ClearCell(cellId, cap) ==
  Apply("clearCell", cellId, clearCell(cells, order, graph, cellId), cap)

\* variant: a clear that leaves the graph as it is
Clear_graphKept ==
  /\ version < MaxVersion
  /\ cells' = <<>>
  /\ order' = <<>>
  /\ lastModified' = lastModified + 1
  /\ version' = version + 1
  /\ shared' = {}
  /\ lastOp' = Whole("clear", "cleared", 1, <<>>, EmptyGraph, version + 1)
  /\ UNCHANGED <<graph, snapshot, changeListeners>>

Clear ==
  /\ version < MaxVersion
  /\ cells' = <<>>
  /\ order' = <<>>
  /\ graph' = EmptyGraph
  /\ lastModified' = lastModified + 1
  /\ version' = version + 1
  /\ shared' = {}
  /\ lastOp' = Whole("clear", "cleared", 1, <<>>, EmptyGraph, version + 1)
  /\ UNCHANGED <<snapshot, changeListeners>>

ExportData ==
  /\ snapshot' = exportData(cells, order, version, lastModified)
  /\ shared' = DOMAIN cells
  /\ lastOp' = Whole("exportData", "exported", 0, cells, graph, version)
  /\ UNCHANGED <<cells, order, version, lastModified, graph, changeListeners>>

\* importData applied to the snapshot held, which the caller then drops
ImportData ==
  /\ snapshot.taken
  /\ LET imported == importData(snapshot)
     IN  /\ cells' = imported.cells
         /\ order' = imported.order
         /\ lastModified' = imported.lastModified
         /\ version' = imported.version
         /\ graph' = imported.graph
         /\ lastOp' = Whole("importData", "imported", 1,
                            imported.cells, imported.graph, imported.version)
  /\ shared' = {}
  /\ snapshot' = NoSnapshot
  /\ UNCHANGED changeListeners

\* createSpreadsheetEngine(snapshot): the caller goes on with the new
\* engine, which has no callbacks yet, and drops the old one and the snapshot
Create ==
  /\ snapshot.taken
  /\ LET created == createSpreadsheetEngine(snapshot)
     IN  /\ cells' = created.cells
         /\ order' = created.order
         /\ lastModified' = created.lastModified
         /\ version' = created.version
         /\ graph' = created.graph
         /\ lastOp' = [Whole("create", "created", 0,
                             created.cells, created.graph, created.version)
                       EXCEPT !.seen = <<>>, !.dropped = Edges(graph) \ Edges(created.graph)]
  /\ shared' = {}
  /\ changeListeners' = {}
  /\ snapshot' = NoSnapshot

\* onChange(callback), and the function it returns to unsubscribe
OnChange(callback) ==
  /\ callback \notin changeListeners
  /\ changeListeners' = changeListeners \cup {callback}
  /\ lastOp' = Whole("onChange", "subscribed", 0, cells, graph, version)
  /\ UNCHANGED <<cells, order, version, lastModified, graph, snapshot, shared>>

Unsubscribe(callback) ==
  /\ callback \in changeListeners
  /\ changeListeners' = changeListeners \ {callback}
  /\ lastOp' = Whole("unsubscribe", "unsubscribed", 0, cells, graph, version)
  /\ UNCHANGED <<cells, order, version, lastModified, graph, snapshot, shared>>

----------------------------------------------------------------------------
(* Specifications *)

\* One engine driven through its whole interface.  The caller saves and
\* reloads: a snapshot it has exported is imported by its next call.
Next ==
  \/ /\ ~snapshot.taken
     /\ \/ \E w \in SavedWrites : Set(w[1], w[2], w[3], MaxVersion)
        \/ \E c \in Cells : ClearCell(c, MaxVersion)
        \/ Clear
        \/ ExportData
  \/ ImportData

Spec == Init /\ [][Next]_vars

\* An engine reached from the empty one by set, clearCell and clear only
NextCore ==
  \/ \E w \in Writes : Set(w[1], w[2], w[3], MaxVersion)
  \/ \E c \in Cells : ClearCell(c, MaxVersion)
  \/ Clear

SpecCore == Init /\ [][NextCore]_vars

\* An engine whose caller exports a snapshot, goes on writing, and later
\* imports the snapshot or creates an engine from it
NextHeld ==
  \/ \E w \in HeldWrites : Set(w[1], w[2], w[3], MaxVersion)
  \/ \E c \in HeldCells : ClearCell(c, MaxVersion)
  \/ Clear
  \/ ExportData
  \/ ImportData
  \/ Create

SpecHeld == Init /\ [][NextHeld]_vars

\* An engine with callbacks that come and go between the calls; a snapshot
\* exported is imported by the next call made to the engine
NextObserved ==
  \/ \E o \in Observers : OnChange(o)
  \/ \E o \in Observers : Unsubscribe(o)
  \/ /\ ~snapshot.taken
     /\ \/ \E w \in ObservedWrites : Set(w[1], w[2], w[3], MaxVersion)
        \/ \E c \in ObservedCells : ClearCell(c, MaxVersion)
        \/ Clear
        \/ ExportData
  \/ ImportData

SpecObserved == Init /\ [][NextObserved]_vars

\* Numbers written to three cells and formulas over them written to a fourth
NextEval == \E w \in EvalWrites : Set(w[1], w[2], w[3], MaxEvalVersion)

SpecEval == Init /\ [][NextEval]_vars

\* Calls that name identifiers inside and outside the grid
NextAddr ==
  \/ \E w \in AddrWrites : Set(w[1], w[2], w[3], MaxVersion)
  \/ \E c \in AddrCells \cup BadIds : ClearCell(c, MaxVersion)

SpecAddr == Init /\ [][NextAddr]_vars

\* Writes to four cells of which one is read directly and through two others
NextProp == \E w \in PropWrites : Set(w[1], w[2], w[3], MaxPropVersion)

SpecProp == Init /\ [][NextProp]_vars

\* The same writes, as long as every call of set returns true
NextAccepted == \E w \in PropWrites : SetAccepted(w[1], w[2], w[3], MaxPropVersion)

SpecAccepted == Init /\ [][NextAccepted]_vars

----------------------------------------------------------------------------
(* Vocabulary of the properties *)

\* the cells a stored formula reads, from its text
Reads(cs, c) ==
  IF c \in DOMAIN cs /\ cs[c].formula # NoText
  THEN Range(parseFormula(cs[c].formula).dependencies)
  ELSE {}

\* the cells whose formulas read a cell of S, directly or through others
RECURSIVE ReadersOf(_, _)
ReadersOf(cs, S) ==
  LET more == {c \in DOMAIN cs : Reads(cs, c) \cap S # {}}
  IN  IF more \subseteq S THEN S ELSE ReadersOf(cs, S \cup more)

TransitiveReaders(cs, x) == ReadersOf(cs, {c \in DOMAIN cs : x \in Reads(cs, c)})

\* the stored value and error of c are those of its formula evaluated against
\* the values the cells hold
UpToDate(cs, c) ==
  LET e == evaluateFormula(cs[c].formula, cellValues(cs))
  IN  cs[c].value = e.value /\ cs[c].error = e.error

\* the identifiers reachable from S along registered dependency edges, S
\* included
RECURSIVE DependencyClosure(_, _)
DependencyClosure(g, S) ==
  LET more == UNION {Range(getDependencies(g, c)) : c \in S}
  IN  IF more \subseteq S THEN S ELSE DependencyClosure(g, S \cup more)

\* the identifiers that occur in the graph
GraphNodes(g) ==
  (DOMAIN g.dependencies) \cup (DOMAIN g.dependents)
  \cup UNION {Range(g.dependencies[k]) : k \in DOMAIN g.dependencies}
  \cup UNION {Range(g.dependents[k]) : k \in DOMAIN g.dependents}

\* the result of a write offered in the current state
Try(w) == set(cells, order, graph, w[1], w[2], w[3])

----------------------------------------------------------------------------
(* C1.  After a sequence of calls of set that all returned true, the last   *)
(* one a literal write to X, every formula cell that reads X, directly or  *)
(* through other cells, holds the value (and error) of its formula         *)
(* evaluated against the values the cells hold when set returns.           *)
(* Stated for SpecAccepted, whose steps are the calls of set that return   *)
(* true.                                                                   *)
C1_PropagationUpToDate ==
  (lastOp.op = "set" /\ lastOp.ret /\ Holds(cells, lastOp.cellId) = "literal")
    => \A c \in TransitiveReaders(cells, lastOp.cellId) : UpToDate(cells, c)

(* C2.  A formula that passes validation is rejected as circular exactly   *)
(* when the written cell X is one of its dependencies or is reachable from *)
(* one of them along the dependency edges registered in the graph.         *)
C2_CircularIffReachable ==
  \A w \in Writes :
    (w[3] # NoText /\ validateFormula(w[3]) = NoText) =>
      LET r == Try(w)
          deps == Range(parseFormula(w[3]).dependencies)
      IN  (r.outcome = "circular") <=> (w[1] \in DependencyClosure(graph, deps))

(* C3.  A write rejected for a circular reference leaves no dependency     *)
(* edge from X in the graph, in either map; X's record keeps the formula   *)
(* text with the circular-reference message, has no value and no           *)
(* dependencies; set returns false; no other record changes.               *)
C3_CircularRejection ==
  \A w \in Writes :
    LET r == Try(w)
        x == w[1]
    IN  r.outcome = "circular" =>
          /\ r.ret = FALSE
          /\ getDependencies(r.graph, x) = <<>>
          /\ \A k \in GraphNodes(r.graph) : x \notin Range(getDependents(r.graph, k))
          /\ DOMAIN r.cells = (DOMAIN cells) \cup {x}
          /\ r.cells[x].formula = w[3]
          /\ IsCircularMessage(r.cells[x].error)
          /\ r.cells[x].value = Undefined
          /\ r.cells[x].dependencies = <<>>
          /\ \A c \in (DOMAIN cells) \ {x} : r.cells[c] = cells[c]

\* a circular write has just been rejected on a cell that held an accepted
\* formula, whose edges were registered
C3_Witness ==
  /\ lastOp.op = "set" /\ lastOp.outcome = "circular" /\ lastOp.prior = "formula"
  /\ Holds(cells, lastOp.cellId) = "circular"

(* C4.  A cell Y whose last write was rejected for a circular reference    *)
(* accepts a literal write: set returns true, getRawValue(Y) is the        *)
(* literal, every cell registered as reading Y is recomputed, and a cell   *)
(* that reads only Y then holds its formula's value for the new literal    *)
(* (A1 = "=B1", B1 = "=A1" rejected, then B1 = v gives A1 = v).            *)
C4_RecoveryAfterRejectedCycle ==
  \A y \in Cells : \A v \in Literals :
    Holds(cells, y) = "circular" =>
      LET r == set(cells, order, graph, y, v, NoText)
      IN  /\ r.ret
          /\ getRawValue(r.cells, y) = v
          /\ \A c \in (DOMAIN cells) \ {y} :
               (cells[c].formula # NoText /\ y \in Range(getDependencies(graph, c)))
                 => /\ c \in r.recalculated
                    /\ Reads(cells, c) = {y} => UpToDate(r.cells, c)

\* B1 = "=A1" was rejected as closing the cycle with A1 = "=B1"; B1 was then
\* written with the literal 1 and A1 reads 1
C4_Witness ==
  /\ lastOp.op = "set" /\ lastOp.cellId = B1 /\ lastOp.prior = "circular"
  /\ lastOp.ret
  /\ getFormula(cells, A1) = F(R(B1))
  /\ getRawValue(cells, B1) = NumV(1)
  /\ getRawValue(cells, A1) = NumV(1)

(* C5.  When set(X, formula) is rejected because the evaluation reports an *)
(* error, the dependents of X are recomputed against the current cell      *)
(* values before set returns: a formula cell whose only dependency is X    *)
(* holds its formula's result for the values the cells hold when set       *)
(* returns.                                                                *)
C5_EvaluationRejectionRecomputes ==
  \A w \in PropWrites :
    LET r == Try(w)
        x == w[1]
    IN  r.outcome = "evaluation" =>
          \A c \in DOMAIN r.cells :
            (r.cells[c].formula # NoText /\ getDependencies(r.graph, c) = <<x>>)
              => UpToDate(r.cells, c)

(* C6.  A write set(X, formula) rejected with an evaluation error stores   *)
(* the sentinel as X's value together with the error and registers X's     *)
(* dependency edges in both maps.  A later accepted write to a cell that X *)
(* reads re-evaluates X; when X's other inputs are not recomputed by that  *)
(* write and X's formula evaluates without error, X holds the numeric      *)
(* result and no error.                                                    *)
C6_EvaluationErrorRecovers ==
  /\ \A w \in PropWrites :
       LET r == Try(w)
           x == w[1]
           deps == parseFormula(w[3]).dependencies
       IN  r.outcome = "evaluation" =>
             /\ r.ret = FALSE
             /\ r.cells[x].value.t = "str" /\ StartsWithHash(r.cells[x].value.x)
             /\ r.cells[x].error # NoText
             /\ r.cells[x].formula = w[3]
             /\ Range(getDependencies(r.graph, x)) = Range(deps)
             /\ \A d \in Range(deps) : x \in Range(getDependents(r.graph, d))
  /\ \A x \in DOMAIN cells : \A w \in PropWrites :
       (Holds(cells, x) = "evaluation" /\ w[1] \in Range(getDependencies(graph, x)))
         => LET r == Try(w)
                e == evaluateFormula(cells[x].formula, cellValues(r.cells))
            IN  r.ret =>
                  /\ x \in r.recalculated
                  /\ r.cells[x].formula = cells[x].formula
                  /\ (r.cells[x].error = NoText) => IsNumber(r.cells[x].value)
                  /\ (/\ Range(getDependencies(graph, x)) \cap r.recalculated = {}
                      /\ e.error = NoText)
                       => /\ r.cells[x].value = e.value
                          /\ r.cells[x].error = NoText

\* B1 = "=A1" held an evaluation error while A1 held a text; the accepted
\* write of a number to A1 gave B1 that number
C6_Witness ==
  /\ lastOp.op = "set" /\ lastOp.cellId = A1 /\ lastOp.ret
  /\ B1 \in lastOp.recovered
  /\ getFormula(cells, B1) = F(R(A1))
  /\ Holds(cells, A1) = "literal"
  /\ cells[B1].value = cells[A1].value

(* C7.  A formula write with unbalanced parentheses or a reference outside *)
(* the grid returns false; X's record keeps the formula text, carries the  *)
(* error message, has no value and no dependencies; the edges X had from a *)
(* previous formula are gone from both maps; no other record changes.      *)
C7_ValidationRejection ==
  \A w \in Writes :
    w[3] \in {Unbalanced, OffGrid} =>
      LET r == Try(w)
          x == w[1]
      IN  /\ r.ret = FALSE
          /\ DOMAIN r.cells = (DOMAIN cells) \cup {x}
          /\ r.cells[x].formula = w[3]
          /\ r.cells[x].error # NoText
          /\ r.cells[x].error = (IF w[3] = Unbalanced
                                 THEN <<Chars("Unmatched opening parenthesis")>>
                                 ELSE <<Chars("Invalid cell reference: "), IdRef(Z9)>>)
          /\ r.cells[x].value = Undefined
          /\ r.cells[x].dependencies = <<>>
          /\ getDependencies(r.graph, x) = <<>>
          /\ \A k \in GraphNodes(r.graph) : x \notin Range(getDependents(r.graph, k))
          /\ \A c \in (DOMAIN cells) \ {x} : r.cells[c] = cells[c]

\* a formula that fails validation was written to a cell that held an
\* accepted formula
C7_Witness ==
  /\ lastOp.op = "set" /\ lastOp.outcome = "validation" /\ lastOp.prior = "formula"
  /\ ~lastOp.ret
  /\ Holds(cells, lastOp.cellId) = "validation"

(* C8.  A call of set or clearCell that names an identifier outside the    *)
(* grid returns false, leaves the cell store, the dependency graph, the    *)
(* version counter and the timestamp unchanged, and notifies no observer.  *)
C8_OutsideGridRejected ==
  [][lastOp'.cellId \in BadIds =>
       /\ lastOp'.ret = FALSE
       /\ lastOp'.notified = 0
       /\ UNCHANGED <<cells, order, graph, version, lastModified>>]_vars

\* set was called with an identifier outside the grid on an engine that
\* holds cells and edges
C8_Witness ==
  /\ lastOp.op = "set" /\ lastOp.cellId \in BadIds
  /\ DOMAIN cells # {}
  /\ DOMAIN graph.dependencies # {}

(* C9.  From every state, for every identifier c of the grid and every     *)
(* literal v, set(c, v) returns true and getRawValue(c) is then v.         *)
C9_LiteralWriteReadBack ==
  \A c \in Cells : \A v \in Literals :
    LET r == set(cells, order, graph, c, v, NoText)
    IN  r.ret /\ getRawValue(r.cells, c) = v

\* a literal was written to a cell that held an evaluation error and is read
\* back
C9_Witness ==
  /\ lastOp.op = "set" /\ lastOp.prior = "evaluation" /\ lastOp.ret
  /\ Holds(cells, lastOp.cellId) = "literal"
  /\ getRawValue(cells, lastOp.cellId) = Hello

(* C10.  Importing the object returned by exportData gives, for every      *)
(* identifier of the grid, the getRawValue and the getFormula of the       *)
(* exporting engine.                                                       *)
C10_ImportOfExport ==
  [][lastOp'.op = "importData" =>
       \A id \in GridIds :
         /\ getRawValue(cells', id) = getRawValue(cells, id)
         /\ getFormula(cells', id) = getFormula(cells, id)]_vars

\* an import has just been made of an export that held a literal, a formula
\* with a value and formulas with errors
C10_Witness ==
  /\ lastOp.op = "importData"
  /\ \E a, b, c \in Cells :
       /\ Holds(cells, a) = "literal"
       /\ Holds(cells, b) = "formula"
       /\ Holds(cells, c) \in {"circular", "evaluation", "validation"}

(* C11.  Importing what exportData returns gives a dependency graph with  *)
(* the same stats (number of dependency edges, number of cells that own    *)
(* edges) as the graph of the exporting engine.  Stated for Spec, where    *)
(* the snapshot imported is the one just exported, so the graph before     *)
(* the import is the graph of the exporting engine.                        *)
C11_ImportKeepsGraphStats ==
  [][lastOp'.op = "importData" => graphStats(graph') = graphStats(graph)]_vars

\* the pairs <<c, d>> such that c holds a formula whose parse lists d
FormulaEdges(cs) == UNION {{<<c, d>> : d \in Reads(cs, c)} : c \in DOMAIN cs}

\* the pairs <<c, d>> such that d is registered as read by c
EdgesIn(g) ==
  UNION {{<<c, d>> : c \in Range(g.dependents[d])} : d \in DOMAIN g.dependents}

(* C12.  After importData(s), and after createSpreadsheetEngine(s), the    *)
(* edges of the graph, in both of its maps, are exactly the pairs <<c, d>> *)
(* where c is a cell of s with a formula and d a dependency that parsing   *)
(* the formula returns; no other edge of the graph as it was before is     *)
(* left.                                                                   *)
C12_ImportRebuildsGraph ==
  [][lastOp'.op \in {"importData", "create"} =>
       /\ Edges(graph') = FormulaEdges(snapshot.cells)
       /\ EdgesIn(graph') = FormulaEdges(snapshot.cells)]_vars

\* an import has just rebuilt a graph that has edges and has dropped an edge
\* registered since the export
C12_Witness ==
  /\ lastOp.op = "importData"
  /\ lastOp.dropped # {}
  /\ Edges(graph) # {}

(* C13.  A snapshot returned by exportData is a copy: the records in it    *)
(* (formula, value, error, dependencies) do not change when the engine is  *)
(* written to afterwards with set, clearCell or clear, also when the write *)
(* recomputes one of its cells as a dependent.                             *)
C13_SnapshotIsCopy ==
  [][(snapshot.taken /\ lastOp'.op \in {"set", "clearCell", "clear"}) =>
       snapshot' = snapshot]_vars

(* C17.  The version counter never decreases over calls of set, clearCell, *)
(* clear and importData on one engine.                                     *)
C17_VersionMonotonic ==
  [][lastOp'.op \in {"set", "clearCell", "clear", "importData"} =>
       version' >= version]_vars

\* the step is a call that has to notify: a set on an identifier of the
\* grid, a clear, an importData, or a clearCell that removed a cell
Notifying ==
  \/ lastOp'.op \in {"clear", "importData"}
  \/ lastOp'.op = "set" /\ isValidCellId(lastOp'.cellId)
  \/ lastOp'.op = "clearCell" /\ lastOp'.outcome = "cleared"

(* C14.  A set on an identifier of the grid (accepted or rejected), a      *)
(* clear, an importData and a clearCell that removes a cell call every     *)
(* registered callback exactly once, and what the callback reads from the  *)
(* engine (cells, graph, version) is what the caller finds when the        *)
(* operation returns.                                                      *)
C14_ObserversNotifiedOnce ==
  [][Notifying =>
       \A o \in changeListeners :
         lastOp'.seen[o] = <<View(cells', graph', version')>>]_vars

\* a rejected write has just been made with two callbacks registered, and
\* each of them was called
C14_Witness ==
  /\ lastOp.op = "set" /\ ~lastOp.ret
  /\ changeListeners = Observers
  /\ \A o \in Observers : Len(lastOp.seen[o]) = 1

\* the identifiers registered as reading a cell of S, directly or through
\* others
RECURSIVE DependentClosure(_, _)
DependentClosure(g, S) ==
  LET more == UNION {Range(getDependents(g, c)) : c \in S}
  IN  IF more \subseteq S THEN S ELSE DependentClosure(g, S \cup more)

TransitiveDependents(g, x) == DependentClosure(g, Range(getDependents(g, x)))

(* C15.  clearCell on an identifier of the grid returns true whether or    *)
(* not a cell exists.  When one exists, afterwards get is absent, the      *)
(* identifier owns no dependency edge in either map, every transitive      *)
(* dependent registered in the graph has been re-evaluated, and a          *)
(* dependent that reads only the cleared cell holds the result of its      *)
(* formula with that cell missing.                                         *)
C15_ClearCell ==
  \A id \in Cells \cup {D1} :
    LET r == clearCell(cells, order, graph, id)
    IN  /\ r.ret
        /\ id \in DOMAIN cells =>
             /\ get(r.cells, id) = <<>>
             /\ getDependencies(r.graph, id) = <<>>
             /\ \A k \in GraphNodes(r.graph) : id \notin Range(getDependents(r.graph, k))
             /\ \A c \in TransitiveDependents(r.graph, id) :
                  /\ c \in r.recalculated
                  /\ Reads(r.cells, c) = {id} => UpToDate(r.cells, c)

\* a cell has just been cleared and a formula that read it went from an
\* evaluation error to a value
C15_Witness ==
  /\ lastOp.op = "clearCell" /\ lastOp.outcome = "cleared" /\ lastOp.ret
  /\ lastOp.recovered # {}
  /\ lastOp.cellId \notin DOMAIN cells

(* C16.  After clear() the store is empty (get is absent and getRawValue   *)
(* undefined for every identifier) and the graph has no edge in either     *)
(* map, so that no write made next recomputes a cell.                      *)
C16_ClearEmptiesAll ==
  lastOp.op = "clear" =>
    /\ cells = <<>>
    /\ \A id \in GridIds : get(cells, id) = <<>> /\ getRawValue(cells, id) = Undefined
    /\ Edges(graph) = {} /\ EdgesIn(graph) = {}
    /\ \A w \in Writes : Try(w).recalculated = {}

\* a clear has just been made on an engine whose graph had edges
C16_Witness ==
  /\ lastOp.op = "clear"
  /\ lastOp.dropped # {}

\* the cells an expression refers to
RECURSIVE RefsOf(_)
RefsOf(e) ==
  IF e.k = "ref" THEN {e.id}
  ELSE UNION {RefsOf(e.args[i]) : i \in DOMAIN e.args}

\* the arithmetic value of an expression for the values the cells hold
RECURSIVE ValueOf(_, _)
ValueOf(e, cs) ==
  IF e.k = "num" THEN NumV(e.n)
  ELSE IF e.k = "ref" THEN getRawValue(cs, e.id)
  ELSE IF e.k = "par" THEN ValueOf(e.args[1], cs)
  ELSE IF e.k = "+" THEN jsAdd(ValueOf(e.args[1], cs), ValueOf(e.args[2], cs))
  ELSE IF e.k = "-" THEN jsSub(ValueOf(e.args[1], cs), ValueOf(e.args[2], cs))
  ELSE IF e.k = "*" THEN jsMul(ValueOf(e.args[1], cs), ValueOf(e.args[2], cs))
  ELSE jsDiv(ValueOf(e.args[1], cs), ValueOf(e.args[2], cs))

\* c holds a number written as a literal
NumericLiteral(cs, c) == Holds(cs, c) = "literal" /\ cs[c].value.t = "num"

\* the last call was a set that stored the formula f
Wrote(f) ==
  /\ lastOp.op = "set"
  /\ lastOp.cellId \in DOMAIN cells
  /\ cells[lastOp.cellId].formula = f

(* C18.  A formula built from numbers, references to cells of the grid,    *)
(* + - * / and parentheses, with no cycle, whose referenced cells hold     *)
(* numeric literals (positive, zero or negative) and whose arithmetic      *)
(* value is finite: set returns true and getRawValue is that arithmetic    *)
(* value for the values the cells hold.                                    *)
C18_ArithmeticValue ==
  \A e \in Arithmetic :
    (/\ Wrote(F(Render(e)))
     /\ \A c \in RefsOf(e) : NumericLiteral(cells, c)
     /\ IsFinite(ValueOf(e, cells)))
    => /\ lastOp.ret
       /\ getRawValue(cells, lastOp.cellId) = ValueOf(e, cells)

(* C19.  A formula that joins a function call and references outside the  *)
(* call, =SUM(A1:A2)+B1 with numbers in the three cells, evaluates to the  *)
(* result of the call combined with the values of the outside cells.       *)
C19_CallPlusReference ==
  (/\ \E f \in Mixed : Wrote(f)
   /\ \A c \in {A1, A2, B1} : NumericLiteral(cells, c))
  => /\ lastOp.ret
     /\ getRawValue(cells, lastOp.cellId)
          = jsAdd(evaluateFunction("SUM", <<cells[A1].value, cells[A2].value>>),
                  cells[B1].value)

(* C20.  A formula with a call of a function other than SUM, AVERAGE,     *)
(* MIN, MAX, COUNT evaluates to #NAME! as a whole, wherever the call       *)
(* stands in it.                                                           *)
C20_UnknownFunctionIsName ==
  (\E f \in UnknownCalls : Wrote(f))
  => getRawValue(cells, lastOp.cellId) = StrV(<<Chars("#NAME!")>>)

----------------------------------------------------------------------------
(* Aggregates over ranges *)

Aggregates == {"SUM", "AVERAGE", "MIN", "MAX", "COUNT"}

\* the ranges written: one in a column, one in a row, each as <<start, end>>
Ranges == {<<A1, A2>>, <<A1, B1>>}

RangeFormula(fn, rg) == F(Call1(fn, R(rg[1]) \o <<Op(":")>> \o R(rg[2])))

\* the writes of the range scenarios: numbers and a string in the cells of
\* the ranges, the five aggregates over each range in C1
RangeCells == {A1, A2, B1}
RangeWrites ==
  {<<A1, v, NoText>> : v \in {NumV(2), NumV(-5), Hello}}
  \cup {<<A2, NumV(1), NoText>>, <<B1, NumV(3), NoText>>}
  \cup {<<C1, Undefined, RangeFormula(fn, rg)>> : fn \in Aggregates, rg \in Ranges}

MaxRangeVersion == 5

\* Values written to the cells of two ranges and aggregates over the ranges
\* written to a fourth cell
NextRange == \E w \in RangeWrites : Set(w[1], w[2], w[3], MaxRangeVersion)

SpecRange == Init /\ [][NextRange]_vars

\* the cells of the rectangle spanned by a range
Span(rg) ==
  {<<c, r>> : c \in Min2(rg[1][1], rg[2][1])..Max2(rg[1][1], rg[2][1]),
              r \in Min2(rg[1][2], rg[2][2])..Max2(rg[1][2], rg[2][2])}

\* the cells of S that hold a number
NumericIn(cs, S) == {c \in S : getRawValue(cs, c).t = "num"}

\* the sum of the numbers held by the cells of S
RECURSIVE Total(_, _)
Total(cs, S) ==
  IF S = {} THEN NumV(0)
  ELSE LET c == CHOOSE x \in S : TRUE
       IN  jsAdd(getRawValue(cs, c), Total(cs, S \ {c}))

\* the aggregate fn of the numbers held by the cells of a non-empty set S
Aggregate(fn, cs, S) ==
  IF fn = "SUM" THEN Total(cs, S)
  ELSE IF fn = "COUNT" THEN NumV(Cardinality(S))
  ELSE IF fn = "AVERAGE" THEN jsDiv(Total(cs, S), NumV(Cardinality(S)))
  ELSE IF fn = "MIN"
       THEN getRawValue(cs, CHOOSE c \in S :
              \A d \in S : ~jsLess(getRawValue(cs, d), getRawValue(cs, c)))
  ELSE getRawValue(cs, CHOOSE c \in S :
         \A d \in S : ~jsLess(getRawValue(cs, c), getRawValue(cs, d)))

(* C21.  SUM, AVERAGE, MIN, MAX and COUNT over a range in one column or    *)
(* one row: the write is accepted and the value is a number, the aggregate *)
(* (rounded to six decimals) of the numbers held by the cells of the       *)
(* range; cells that are missing or hold a string that is no number are    *)
(* left out of it, neither counted as zero nor reported as an error.       *)
C21_RangeAggregates ==
  \A fn \in Aggregates, rg \in Ranges :
    Wrote(RangeFormula(fn, rg))
    => LET S == NumericIn(cells, Span(rg))
       IN  /\ lastOp.ret
           /\ getRawValue(cells, lastOp.cellId).t = "num"
           /\ (S # {} \/ fn \in {"SUM", "COUNT"})
              => getRawValue(cells, lastOp.cellId) = Round6(Aggregate(fn, cells, S))

\* an aggregate other than SUM has just been written over a range of which
\* one cell holds a number and the other a string or nothing
C21_Witness ==
  \E fn \in Aggregates \ {"SUM"}, rg \in Ranges :
    /\ Wrote(RangeFormula(fn, rg))
    /\ Cardinality(NumericIn(cells, Span(rg))) = 1
    /\ \E c \in Span(rg) : getRawValue(cells, c) = Hello

----------------------------------------------------------------------------
(* Operands of arithmetic formulas *)

Quotient == F(R(A1) \o <<Op("/")>> \o R(B1))
Sum2 == F(Plus(R(A1), R(B1)))
Unclosed == F(<<Op("(")>> \o R(A1))

\* the writes of the operand scenarios: numbers and a string in A1 and B1,
\* a quotient, a sum and a formula that fails validation in C1, a formula
\* that reads C1 in D1
OperandCells == {A1, B1}
OperandWrites ==
  {<<A1, v, NoText>> : v \in {NumV(2), NumV(0), Hello}}
  \cup {<<B1, NumV(0), NoText>>, <<B1, NumV(1), NoText>>}
  \cup {<<C1, Undefined, f>> : f \in {Quotient, Sum2, Unclosed}}
  \cup {<<D1, Undefined, F(R(C1))>>}

\* the formulas among them that pass the validation
OperandFormulas == {Quotient, Sum2, F(R(C1))}

MaxOperandVersion == 5

\* Values written to and cleared from two cells, formulas over them written
\* to a third, and a formula over the third written to a fourth
NextOperand ==
  \/ \E w \in OperandWrites : Set(w[1], w[2], w[3], MaxOperandVersion)
  \/ \E c \in OperandCells : ClearCell(c, MaxOperandVersion)

SpecOperand == Init /\ [][NextOperand]_vars

\* the number an arithmetic formula reads from a cell that holds a number
\* or nothing
Operand(cs, c) ==
  IF getRawValue(cs, c).t = "undef" THEN NumV(0) ELSE getRawValue(cs, c)

NumberOrMissing(cs, c) == getRawValue(cs, c).t \in {"num", "undef"}

\* v is a string that does not read as a number
NonNumeric(v) == v.t = "str" /\ parseFloat(v.x).t = "nan"

(* C22.  =A1/B1 whose operands are numbers (or missing) and whose quotient *)
(* is not finite, as with B1 = 0: set returns false and the value of the   *)
(* cell is the sentinel #NUM!.                                             *)
C22_NotFiniteIsNum ==
  (/\ Wrote(Quotient)
   /\ \A c \in {A1, B1} : NumberOrMissing(cells, c)
   /\ ~IsFinite(jsDiv(Operand(cells, A1), Operand(cells, B1))))
  => /\ ~lastOp.ret
     /\ cells[lastOp.cellId].value = StrV(<<Chars("#NUM!")>>)
     /\ getRawValue(cells, lastOp.cellId) = StrV(<<Chars("#NUM!")>>)

\* =A1/B1 has just been written with 2 in A1 and 0 in B1
C22_Witness ==
  /\ Wrote(Quotient)
  /\ NumericLiteral(cells, A1) /\ cells[A1].value = NumV(2)
  /\ NumericLiteral(cells, B1) /\ cells[B1].value = NumV(0)

(* C23.  A formula without calls that passes the validation and refers to  *)
(* a cell whose raw value is a string that is no number, the sentinel or   *)
(* the error message of a cell that holds an error included: set returns   *)
(* false and the value of the cell is #VALUE!.                             *)
C23_TextOperandIsValue ==
  \A f \in OperandFormulas :
    (/\ Wrote(f)
     /\ \E c \in Range(extractCellReferences(Slice1(f))) :
          NonNumeric(getRawValue(cells, c)))
    => /\ ~lastOp.ret
       /\ getRawValue(cells, lastOp.cellId) = StrV(<<Chars("#VALUE!")>>)

\* =C1 has just been written while C1 holds the error of a validation,
\* whose message is its raw value
C23_Witness ==
  /\ Wrote(F(R(C1)))
  /\ Holds(cells, C1) = "validation"
  /\ getRawValue(cells, C1) = StrV(cells[C1].error)

(* C24.  =A1+B1 with a number in one of the two cells and no record for    *)
(* the other (never written, or cleared): the missing cell counts as zero, *)
(* the formula has the value of the other cell, and the write is accepted. *)
(* The same holds when the record is cleared after the formula is written. *)
C24_MissingIsZero ==
  \A x \in {A1, B1}, y \in {A1, B1} :
    (/\ x # y
     /\ C1 \in DOMAIN cells /\ cells[C1].formula = Sum2
     /\ (Wrote(Sum2) \/ (lastOp.op = "clearCell" /\ lastOp.cellId = y))
     /\ y \notin DOMAIN cells
     /\ NumericLiteral(cells, x))
    => /\ Holds(cells, C1) = "formula"
       /\ getRawValue(cells, C1) = cells[x].value
       /\ lastOp.ret

\* =A1+B1 has just been written with 2 in A1 and no record for B1
C24_Witness ==
  /\ Wrote(Sum2)
  /\ NumericLiteral(cells, A1) /\ cells[A1].value = NumV(2)
  /\ B1 \notin DOMAIN cells

----------------------------------------------------------------------------
(* Saving and reloading an engine that holds rejected formulas *)

\* the writes offered to an engine that is saved and reloaded while it
\* holds formulas rejected by the validation (a reference outside the grid)
\* and as circular, next to writes that name an identifier outside the grid
ReloadCells == {A1, B1}
ReloadWrites ==
  {<<A1, NumV(1), NoText>>, <<A1, Undefined, OffGrid>>,
   <<A1, Undefined, F(R(A1))>>, <<B1, Undefined, F(R(A1))>>,
   <<Z9, NumV(1), NoText>>, <<Z9, Undefined, F(R(A1))>>}

MaxReloadVersion == 4

\* set, clearCell, clear, and importData of the snapshot exported by the
\* call before it
NextReload ==
  \/ /\ ~snapshot.taken
     /\ \/ \E w \in ReloadWrites : Set(w[1], w[2], w[3], MaxReloadVersion)
        \/ \E c \in ReloadCells \cup {Z9} : ClearCell(c, MaxReloadVersion)
        \/ Clear
        \/ ExportData
  \/ ImportData

SpecReload == Init /\ [][NextReload]_vars

(* C25.  In every state reached through set, clearCell, clear and          *)
(* importData, every key of the cell store is an identifier of the grid    *)
(* and every dependency edge joins two identifiers of the grid.            *)
C25_OnlyGridIdentifiers ==
  /\ DOMAIN cells \subseteq GridIds
  /\ \A e \in Edges(graph) : e[1] \in GridIds /\ e[2] \in GridIds

----------------------------------------------------------------------------
(* The dependency graph on its own *)

GraphCells == {A1, B1, C1}

\* the edges added, as <<dependent, dependency>>: two cells that depend on
\* one cell, one cell that depends on two, cycles of two and of three cells
GraphEdges == {<<A1, B1>>, <<A1, C1>>, <<B1, C1>>, <<B1, A1>>, <<C1, A1>>}

\* the record of a call made to the graph that leaves it as g
GraphCall(op, cell, g) ==
  [Whole(op, "done", 0, cells, g, version) EXCEPT !.cellId = cell]

AddDependency(dependent, dependency) ==
  /\ graph' = addDependency(graph, dependent, dependency)
  /\ lastOp' = GraphCall("addDependency", dependent,
                         addDependency(graph, dependent, dependency))
  /\ UNCHANGED <<cells, order, version, lastModified, snapshot, shared, changeListeners>>

RemoveDependencies(cell) ==
  /\ graph' = removeDependencies(graph, cell)
  /\ lastOp' = GraphCall("removeDependencies", cell, removeDependencies(graph, cell))
  /\ UNCHANGED <<cells, order, version, lastModified, snapshot, shared, changeListeners>>

\* clear() of the graph
GraphClear ==
  /\ graph' = EmptyGraph
  /\ lastOp' = GraphCall("clear", <<0, 0>>, EmptyGraph)
  /\ UNCHANGED <<cells, order, version, lastModified, snapshot, shared, changeListeners>>

\* A graph driven through addDependency, removeDependencies and clear
NextGraph ==
  \/ \E e \in GraphEdges : AddDependency(e[1], e[2])
  \/ \E c \in GraphCells : RemoveDependencies(c)
  \/ GraphClear

SpecGraph == Init /\ [][NextGraph]_vars

(* C26.  After any sequence of addDependency, removeDependencies and clear *)
(* the two maps of the graph agree: b is among getDependencies(a) exactly  *)
(* when a is among getDependents(b); and right after removeDependencies(c) *)
(* c has no dependencies and is among the dependents of no cell.           *)
C26_MapsAgree ==
  /\ \A a \in GraphCells, b \in GraphCells :
       b \in Range(getDependencies(graph, a)) <=> a \in Range(getDependents(graph, b))
  /\ lastOp.op = "removeDependencies"
     => /\ getDependencies(graph, lastOp.cellId) = <<>>
        /\ \A b \in GraphCells : lastOp.cellId \notin Range(getDependents(graph, b))

\* removeDependencies has just removed the edges of one cell from a graph
\* in which another cell keeps edges
C26_Witness ==
  /\ lastOp.op = "removeDependencies"
  /\ lastOp.dropped # {}
  /\ Edges(graph) # {}

----------------------------------------------------------------------------
(* Records and edges *)

(* C27.  In every state, the dependencies of every record that has a       *)
(* formula are the references found by parsing the text of the formula.    *)
C27_DependenciesAreParsed ==
  \A c \in DOMAIN cells :
    cells[c].formula # NoText
    => Range(cells[c].dependencies) = Range(parseFormula(cells[c].formula).dependencies)

\* the writes of the wiring scenarios: a string and a number as literals,
\* formulas of one and two references that close cycles of one, two and
\* three cells, and a formula that fails validation
WiringWrites ==
  {<<A1, Hello, NoText>>, <<B1, NumV(1), NoText>>,
   <<A1, Undefined, F(R(B1))>>, <<A1, Undefined, F(R(A1))>>,
   <<A1, Undefined, Unbalanced>>,
   <<B1, Undefined, F(R(A1))>>, <<B1, Undefined, F(R(C1))>>,
   <<C1, Undefined, F(Plus(R(A1), R(B1)))>>}

MaxWiringVersion == 3

\* An engine reached from the empty one by set, clearCell and clear, with
\* formulas of more than one reference
NextWiring ==
  \/ \E w \in WiringWrites : Set(w[1], w[2], w[3], MaxWiringVersion)
  \/ \E c \in Cells : ClearCell(c, MaxWiringVersion)
  \/ Clear

SpecWiring == Init /\ [][NextWiring]_vars

(* C28.  In every state reached from the empty engine by set, clearCell    *)
(* and clear, the forward edges of each cell are the dependencies of its   *)
(* record, and a cell without a record, or whose record is a literal or a  *)
(* formula rejected by the validation or as circular, has no forward edge. *)
C28_EdgesAreRecordDependencies ==
  \A c \in GridIds \cup DOMAIN graph.dependencies :
    /\ Range(getDependencies(graph, c))
         = (IF c \in DOMAIN cells THEN Range(cells[c].dependencies) ELSE {})
    /\ Holds(cells, c) \in {"absent", "literal", "validation", "circular"}
       => getDependencies(graph, c) = <<>>

\* one cell holds a formula rejected as circular, another a formula whose
\* evaluation failed, with its two edges
C28_Witness ==
  /\ \E c \in Cells : Holds(cells, c) = "circular"
  /\ \E c \in Cells : /\ Holds(cells, c) = "evaluation"
                      /\ Len(getDependencies(graph, c)) = 2

(* C29.  In every state reached from the empty engine by set, clearCell    *)
(* and clear, the graph has no cycle: no cell is among its own transitive  *)
(* dependents.                                                             *)
C29_GraphAcyclic ==
  \A c \in GridIds : c \notin TransitiveDependents(graph, c)

\* the write of C1 that would have closed a cycle of three cells has just
\* been rejected, and the two edges it would have closed stay
C29_Witness ==
  /\ lastOp.op = "set"
  /\ lastOp.outcome = "circular"
  /\ lastOp.cellId = C1
  /\ {<<A1, B1>>, <<B1, C1>>} \subseteq Edges(graph)

----------------------------------------------------------------------------
(* The engine that imports a snapshot and the engine that exported it *)

\* the engine that results from importData of the snapshot just exported,
\* and the exporting engine, after the same call
SetBoth(w) ==
  LET imported == importData(snapshot)
  IN  [exporting |-> set(cells, order, graph, w[1], w[2], w[3]),
       importing |-> set(imported.cells, imported.order, imported.graph,
                         w[1], w[2], w[3])]

ClearCellBoth(c) ==
  LET imported == importData(snapshot)
  IN  [exporting |-> clearCell(cells, order, graph, c),
       importing |-> clearCell(imported.cells, imported.order, imported.graph, c)]

\* the two engines returned the same and hold the same raw values
Alike(both) ==
  /\ both.exporting.ret = both.importing.ret
  /\ \A c \in GridIds :
       getRawValue(both.exporting.cells, c) = getRawValue(both.importing.cells, c)

(* C30.  An engine that imports a snapshot behaves as the engine that      *)
(* exported it, in the state of the export: a set or clearCell applied to  *)
(* either returns the same and leaves the same raw value in every cell,    *)
(* also when the state holds formulas whose write was rejected.            *)
C30_ImportedBehavesAlike ==
  lastOp.op = "exportData"
  => /\ \A w \in SavedWrites : Alike(SetBoth(w))
     /\ \A c \in Cells : Alike(ClearCellBoth(c))

----------------------------------------------------------------------------
(* Two engines: one exports, the other imports *)

\* engine2.importData(engine1.exportData()): the model goes on with engine2,
\* a new engine without callbacks, and engine1 is not called again.  The
\* records of engine1 are the records of the snapshot it exported, so
\* snapshot stands for what engine1 holds, and every record of engine2 is
\* shared with it.
ImportSecond ==
  /\ lastOp.op = "exportData"
  /\ LET imported == importData(snapshot)
     IN  /\ cells' = imported.cells
         /\ order' = imported.order
         /\ lastModified' = imported.lastModified
         /\ version' = imported.version
         /\ graph' = imported.graph
         /\ shared' = DOMAIN imported.cells
         /\ lastOp' = [Whole("importData", "imported", 1,
                             imported.cells, imported.graph, imported.version)
                       EXCEPT !.seen = <<>>]
  /\ changeListeners' = {}
  /\ UNCHANGED snapshot

\* the engine called is engine2, and snapshot holds the records of engine1
Paired == snapshot.taken /\ lastOp.op # "exportData"

MaxPairVersion == 4

\* the writes offered to the two engines
PairCells == {A1, B1}
PairWrites ==
  {<<A1, NumV(1), NoText>>, <<A1, Hello, NoText>>,
   <<B1, Undefined, F(R(A1))>>, <<B1, NumV(1), NoText>>}

\* engine1 is written to and exports; engine2 imports what it exported and
\* is written to from then on
NextPair ==
  \/ \E w \in PairWrites :
       lastOp.op # "exportData" /\ Set(w[1], w[2], w[3], MaxPairVersion)
  \/ \E c \in PairCells :
       lastOp.op # "exportData" /\ ClearCell(c, MaxPairVersion)
  \/ lastOp.op # "exportData" /\ Clear
  \/ ~snapshot.taken /\ lastOp.op # "exportData" /\ ExportData
  \/ ImportSecond

SpecPair == Init /\ [][NextPair]_vars

\* what a caller reads from a record: getRawValue, the error, getFormula
ReadFrom(cs, c) ==
  [value |-> getRawValue(cs, c), error |-> cs[c].error, formula |-> cs[c].formula]

(* C31.  After engine2.importData(engine1.exportData()), no set, clearCell *)
(* or clear on engine2 changes the value, the error or the formula read    *)
(* from any cell of engine1.                                               *)
C31_EnginesIndependent ==
  [][(Paired /\ lastOp'.op \in {"set", "clearCell", "clear"}) =>
       \A c \in DOMAIN snapshot.cells :
         ReadFrom(snapshot'.cells, c) = ReadFrom(snapshot.cells, c)]_vars

----------------------------------------------------------------------------
(* The queries of the dependency graph *)

TraversalCells == {A1, B1, C1, D1}

\* the edges added, as <<dependent, dependency>>: B1 and C1 depend on A1,
\* D1 depends on both, and A1 depends on D1, which closes two cycles
TraversalEdges == {<<B1, A1>>, <<C1, A1>>, <<D1, B1>>, <<D1, C1>>, <<A1, D1>>}

\* the candidate dependencies handed to checkCircularReference
Candidates == {<<A1>>, <<D1>>, <<B1, C1>>}

\* getAllDependents(cell): the graph is only read
GetAllDependents(cell) ==
  /\ lastOp' = [GraphCall("getAllDependents", cell, graph)
                EXCEPT !.ret = getAllDependents(graph, cell)]
  /\ UNCHANGED <<cells, order, version, lastModified, graph, snapshot, shared,
                 changeListeners>>

\* variant: the search runs on the map of the graph itself
checkedDependencies_aliased(g, cell, cellDependencies) ==
  MapSet(g.dependencies, cell, SetAddAll(<<>>, cellDependencies))

\* the map dependencies of the graph after checkCircularReference: tempGraph
\* is a new Map, and tempGraph.set leaves the map it was copied from alone
checkedDependencies(g, cell, cellDependencies) == g.dependencies

\* checkCircularReference(cell, cellDependencies); what it returned is kept
\* with the candidate dependencies it was given
CheckCircularReference(cell, cellDependencies) ==
  LET after == [graph EXCEPT
                  !.dependencies = checkedDependencies(graph, cell, cellDependencies)]
  IN  /\ graph' = after
      /\ lastOp' = [GraphCall("checkCircularReference", cell, after)
                    EXCEPT !.ret = [error |-> checkCircularReference(graph, cell,
                                                                     cellDependencies),
                                    cellDependencies |-> cellDependencies]]
      /\ UNCHANGED <<cells, order, version, lastModified, snapshot, shared,
                     changeListeners>>

\* A graph built by addDependency, cycles included, and queried
NextTraversal ==
  \/ \E e \in TraversalEdges : AddDependency(e[1], e[2])
  \/ \E c \in TraversalCells : GetAllDependents(c)
  \/ \E c \in TraversalCells, deps \in Candidates : CheckCircularReference(c, deps)

SpecTraversal == Init /\ [][NextTraversal]_vars

(* C32.  For any graph built by addDependency, the cells returned by       *)
(* getAllDependents(c) are exactly the cells reached from c over one or    *)
(* more dependent edges; none when nothing depends on c.                   *)
C32_AllDependentsAreReachable ==
  lastOp.op = "getAllDependents"
  => /\ Range(lastOp.ret) = TransitiveDependents(graph, lastOp.cellId)
     /\ getDependents(graph, lastOp.cellId) = <<>> => lastOp.ret = <<>>

\* getAllDependents has just returned cells that are no direct dependents
\* of its argument
C32_Witness ==
  /\ lastOp.op = "getAllDependents"
  /\ Range(lastOp.ret) \ Range(getDependents(graph, lastOp.cellId)) # {}

(* C33.  The sequence returned by getAllDependents(c) lists each cell at   *)
(* most once, also when a cell is a dependent of two cells reached from c. *)
C33_AllDependentsOnce ==
  lastOp.op = "getAllDependents"
  => \A i \in DOMAIN lastOp.ret, j \in DOMAIN lastOp.ret :
       lastOp.ret[i] = lastOp.ret[j] => i = j

(* C34.  getAllDependents and checkCircularReference return on every      *)
(* graph that addDependency builds, graphs with cycles included:           *)
(* getAllDependents after at most one visit per edge of the graph, and     *)
(* checkCircularReference with a chain no longer than the cells searched.  *)
C34_TraversalsAreBounded ==
  /\ lastOp.op = "getAllDependents"
     => Len(lastOp.ret) <= Cardinality(Edges(graph))
  /\ lastOp.op = "checkCircularReference"
     => /\ lastOp.ret.error.found \in BOOLEAN
        /\ Len(lastOp.ret.error.chain) <= Cardinality(TraversalCells) + 1

\* getAllDependents has just returned for a cell that is on a cycle
C34_Witness ==
  /\ lastOp.op = "getAllDependents"
  /\ lastOp.cellId \in TransitiveDependents(graph, lastOp.cellId)

(* C35.  checkCircularReference never changes the graph, whether it        *)
(* returns an error or null: getDependencies and getDependents of every    *)
(* cell and getStats are the same before and after the call.               *)
C35_CheckLeavesGraph ==
  [][lastOp'.op = "checkCircularReference" =>
       /\ \A c \in TraversalCells :
            /\ getDependencies(graph', c) = getDependencies(graph, c)
            /\ getDependents(graph', c) = getDependents(graph, c)
       /\ graphStats(graph') = graphStats(graph)]_vars

\* checkCircularReference has just returned an error on a graph with edges
C35_Witness ==
  /\ lastOp.op = "checkCircularReference"
  /\ lastOp.ret.error.found
  /\ Edges(graph) # {}

\* the edges of the graph with the candidate dependencies of cell in place
\* of the dependencies it has
CandidateEdges(g, cell, cellDependencies) ==
  {e \in Edges(g) : e[1] # cell} \cup {<<cell, d>> : d \in Range(cellDependencies)}

(* C36.  When checkCircularReference returns an error, the chain reported  *)
(* is a cycle of the graph with the candidate edges added: it ends at the  *)
(* node it starts at, and each cell in it depends on the next.             *)
C36_ChainIsCycle ==
  (lastOp.op = "checkCircularReference" /\ lastOp.ret.error.found)
  => LET chain == lastOp.ret.error.chain
     IN  /\ Len(chain) >= 2
         /\ chain[1] = chain[Len(chain)]
         /\ \A i \in 1..(Len(chain) - 1) :
              <<chain[i], chain[i + 1]>>
                \in CandidateEdges(graph, lastOp.cellId, lastOp.ret.cellDependencies)

----------------------------------------------------------------------------
(* What set returns and what it leaves alone *)

(* C37.  For an identifier of the grid, set returns true exactly when the  *)
(* record it leaves for the cell has no error, and false exactly when the  *)
(* record carries the error of a validation, of a circular reference or of *)
(* an evaluation.                                                          *)
C37_ReturnsTrueIffNoError ==
  (lastOp.op = "set" /\ isValidCellId(lastOp.cellId))
  => /\ lastOp.cellId \in DOMAIN cells
     /\ lastOp.ret <=> cells[lastOp.cellId].error = NoText
     /\ ~lastOp.ret
        => Holds(cells, lastOp.cellId) \in {"validation", "circular", "evaluation"}

\* set has just returned false for a formula whose evaluation gave an error
C37_Witness ==
  /\ lastOp.op = "set"
  /\ ~lastOp.ret
  /\ Holds(cells, lastOp.cellId) = "evaluation"

(* C38.  A set of X that returns true changes the record of X and the      *)
(* value and error of the transitive dependents of X, and nothing else:    *)
(* the record of every other cell, the formula (and dependencies) of every *)
(* dependent, and the edges owned by every cell other than X stay.         *)
C38_AcceptedSetFrame ==
  [][(lastOp'.op = "set" /\ lastOp'.ret) =>
       LET X == lastOp'.cellId
           T == TransitiveDependents(graph', X)
       IN  /\ DOMAIN cells' = DOMAIN cells \cup {X}
           /\ \A c \in DOMAIN cells \ {X} :
                /\ cells'[c].id = cells[c].id
                /\ cells'[c].formula = cells[c].formula
                /\ cells'[c].dependencies = cells[c].dependencies
                /\ cells'[c].dependents = cells[c].dependents
                /\ c \notin T => cells'[c] = cells[c]
           /\ \A c \in GridIds \ {X} :
                getDependencies(graph', c) = getDependencies(graph, c)]_vars

\* a set has just returned true and took a dependent from an error to a value
C38_Witness ==
  /\ lastOp.op = "set"
  /\ lastOp.ret
  /\ lastOp.recovered # {}

----------------------------------------------------------------------------
(* Reference extraction on its own: the texts are drawn at the start and  *)
(* extractCellReferences is applied to them                                *)

\* the endpoints of the ranges are cells of the columns and rows 1..MaxEnd
MaxEnd == 3

EndIds == (1..MaxEnd) \X (1..MaxEnd)

Shapes == {"range", "call", "twice"}

\* the expressions  a:b,  SUM(a:b)  and  a:b+a:b
ExtractText(shape, a, b) ==
  LET rg == R(a) \o <<Op(":")>> \o R(b)
  IN  IF shape = "range" THEN rg
      ELSE IF shape = "call" THEN Call1("SUM", rg)
      ELSE Plus(rg, rg)

InitExtract ==
  /\ cells = <<>>
  /\ order = <<>>
  /\ version = 1
  /\ lastModified = 0
  /\ graph = rebuildDependencyGraph(<<>>, <<>>)
  /\ snapshot = NoSnapshot
  /\ shared = {}
  /\ changeListeners = {}
  /\ \E shape \in Shapes, a \in EndIds, b \in EndIds :
       lastOp = [op |-> "text", shape |-> shape, start |-> a, end |-> b,
                 formula |-> ExtractText(shape, a, b),
                 rangeCells |-> <<>>, ret |-> <<>>]

\* extractCellReferences(formula); rangeCells are the expansions of the
\* range matches, one per match
ExtractCellReferences ==
  /\ lastOp.op = "text"
  /\ lastOp' = [lastOp EXCEPT
                  !.op = "extractCellReferences",
                  !.rangeCells =
                    [i \in DOMAIN rangeMatches(lastOp.formula) |->
                       expandRange(rangeMatches(lastOp.formula)[i].start,
                                   rangeMatches(lastOp.formula)[i].end)],
                  !.ret = extractCellReferences(lastOp.formula)]
  /\ UNCHANGED <<cells, order, version, lastModified, graph, snapshot, shared,
                 changeListeners>>

NextExtract == ExtractCellReferences

SpecExtract == InitExtract /\ [][NextExtract]_vars

\* the member cells of a range: the span of a column or of a row
Members(a, b) ==
  IF a[1] = b[1] \/ a[2] = b[2] THEN Span(<<a, b>>) ELSE {}

(* C39.  Extraction expands a range whose endpoints share a column into    *)
(* every cell of the inclusive span of rows, one whose endpoints share a   *)
(* row into every cell of the inclusive span of columns, and any other     *)
(* range into no member cell; the expansion is the same whichever endpoint *)
(* is written first, and no cell is extracted twice.                       *)
C39_RangeExpansion ==
  lastOp.op = "extractCellReferences"
  => LET a == lastOp.start
         b == lastOp.end
     IN  /\ lastOp.rangeCells # <<>>
         /\ \A i \in DOMAIN lastOp.rangeCells :
              /\ Range(lastOp.rangeCells[i]) = Members(a, b)
              /\ Len(lastOp.rangeCells[i]) = Cardinality(Members(a, b))
              /\ lastOp.rangeCells[i] = expandRange(b, a)
         /\ Range(lastOp.ret) = {a, b} \cup Members(a, b)
         /\ Range(lastOp.ret)
              = Range(extractCellReferences(ExtractText(lastOp.shape, b, a)))
         /\ Len(lastOp.ret) = Cardinality(Range(lastOp.ret))

\* a range of one column written from the lower row to the upper one, with
\* a cell between the endpoints, has been extracted from a text that names
\* it twice
C39_Witness ==
  /\ lastOp.op = "extractCellReferences"
  /\ lastOp.shape = "twice"
  /\ lastOp.start[1] = lastOp.end[1]
  /\ lastOp.start[2] > lastOp.end[2] + 1
  /\ Len(lastOp.ret) = 3

============================================================================
